---- MODULE Spec2Model ----
(***************************************************************************)
(* Model of the validator package of cli-kit: ValidateURL (SSRF guard)     *)
(* with its IP classifier, and ValidatePath (traversal / allowlist guard), *)
(* and of the configutil resolvers that layer flag, environment, default.  *)
(* Strings that the code inspects character by character (paths) are       *)
(* sequences of one-character strings; IP addresses are byte sequences of  *)
(* length 4 or 16 as in Go's net.IP.                                       *)
(***************************************************************************)
EXTENDS Integers, Sequences, FiniteSets, TLC

\* a nil net.IP (a nil slice has length 0)
NilIP == <<>>

(* ------------------------------- state --------------------------------- *)

VARIABLES
    upc,        \* where the running ValidateURL call is
    urlArg,     \* its urlStr argument
    uopts,      \* its opts argument, as the caller passed it
    nopts,      \* opts after normalizeURLOptions
    u,          \* the parsed URL
    dns,        \* what LookupIPAddr answered
    addrs,      \* the addresses LookupIPAddr returned
    idx,        \* the loop index over addrs
    uerr,       \* the returned error (NoErr for nil)
    lookups,    \* LookupIPAddr calls issued by this call
    checked     \* addresses handed to checkIPAllowed by this call

urlVars == <<upc, urlArg, uopts, nopts, u, dns, addrs, idx, uerr, lookups, checked>>

VARIABLES
    ppc,        \* where the ValidatePath call is
    pathArg,    \* its path argument
    popts,      \* its opts argument
    cwd,        \* the process's working directory
    pres,       \* what the call returned
    fs          \* the symbolic links that exist in the filesystem

pathVars == <<ppc, pathArg, popts, cwd, pres, fs>>

VARIABLES
    flags,      \* the FlagSet's entry for the flag: set on the command line or not, its text
    environ,    \* the environment's entry for the key: set or not, its text
    rpc,        \* where the Resolve* call is
    rcall,      \* which Resolve* function runs, with its defaultValue and option
    rres,       \* what it returned
    rerr        \* the error it returned with it (NoErr for nil and for the resolvers without one)

cfgVars == <<flags, environ, rpc, rcall, rres, rerr>>

VARIABLES
    heapOpts,   \* the options values the callers point to: [url, path]
    allocOpts,  \* history: heapOpts as the caller built it
    gpc,        \* per goroutine: where its validator call is
    gcall,      \* per goroutine: which validator it runs, on which input
    gloc,       \* per goroutine: the call's locals (normalized options, absPath)
    gans,       \* per goroutine: what the resolver answered to the call
    gres        \* per goroutine: what the call returned

concVars == <<heapOpts, allocOpts, gpc, gcall, gloc, gans, gres>>

VARIABLES
    menv,       \* the process environment of a test: variable -> set / unset, text
    original,   \* EnvManager.original: key -> saved or not, the saved text
    mpc,        \* "setup" before NewEnvManager, "managed" after it
    mlast,      \* the EnvManager method that ran last
    margs,      \* the keys that method was given
    merr,       \* the error it returned
    msnap       \* history: the environment when the manager was created

mgrVars == <<menv, original, mpc, mlast, margs, merr, msnap>>

VARIABLES
    pwpc,       \* where the call of ReadPasswordFromFile is
    pwArg,      \* its filePath argument
    safePath,   \* the path ValidatePath returned to it
    pwRes,      \* what it returned: [password, err]
    pwReads,    \* how often the call has read a file
    disk,       \* the files and symbolic links at the paths the call may read
    seenNode    \* history: what was at safePath when validation succeeded

pwVars == <<pwpc, pwArg, safePath, pwRes, pwReads, disk, seenNode>>

VARIABLES
    ipc,        \* where the call of isPrivateIP is
    ipArg,      \* the address it is given
    ipGot       \* what it returned

ipVars == <<ipc, ipArg, ipGot>>

\* everything but the state of ValidateURL, of ValidatePath, of the
\* resolvers, of the concurrent callers, of the EnvManager, of
\* ReadPasswordFromFile, of isPrivateIP
nonURLVars == <<pathVars, cfgVars, concVars, mgrVars, pwVars, ipVars>>
nonPathVars == <<urlVars, cfgVars, concVars, mgrVars, pwVars, ipVars>>
nonCfgVars == <<urlVars, pathVars, concVars, mgrVars, pwVars, ipVars>>
nonConcVars == <<urlVars, pathVars, cfgVars, mgrVars, pwVars, ipVars>>
nonMgrVars == <<urlVars, pathVars, cfgVars, concVars, pwVars, ipVars>>
nonPwVars == <<urlVars, pathVars, cfgVars, concVars, mgrVars, ipVars>>
nonIPVars == <<urlVars, pathVars, cfgVars, concVars, mgrVars, pwVars>>

vars == <<urlVars, pathVars, cfgVars, concVars, mgrVars, pwVars, ipVars>>

(* ------------------------------ bounds --------------------------------- *)
\* longest DNS answer explored
MaxAddrs == 2
\* longest input path explored (characters)
MaxLen == 5
\* longest AllowedDirs list explored
MaxDirs == 2
\* goroutines that call the validators at the same time
MaxCallers == 2

(* --------------------------- program constants ------------------------- *)
\* defaultURLOptions: ResolveHostTimeout 5 * time.Second
DefaultResolveSeconds == 5

(* ============================ IP addresses ============================= *)

Zeros(n) == [i \in 1..n |-> 0]

\* net.IPv4(a,b,c,d): the 16-byte IPv4-mapped form ParseIP returns
v4InV6(b) == Zeros(10) \o <<255, 255>> \o b

\* net.IP.To4
To4(ip) ==
    IF Len(ip) = 4 THEN ip
    ELSE IF Len(ip) = 16 /\ (\A i \in 1..10 : ip[i] = 0) /\ ip[11] = 255 /\ ip[12] = 255
         THEN SubSeq(ip, 13, 16)
         ELSE NilIP

\* net.IP.To16
To16(ip) == IF Len(ip) = 4 THEN v4InV6(ip) ELSE ip

\* net.IP.Equal: a 4-byte and a 16-byte form of one IPv4 address are equal
IPEqual(x, y) == To16(x) = To16(y)

IPv4zero == v4InV6(<<0, 0, 0, 0>>)
IPv6unspecified == Zeros(16)
IPv6loopback == Zeros(15) \o <<1>>

IsUnspecified(ip) == IPEqual(ip, IPv4zero) \/ IPEqual(ip, IPv6unspecified)

IsLoopback(ip) ==
    IF To4(ip) # NilIP THEN To4(ip)[1] = 127
    ELSE IPEqual(ip, IPv6loopback)

\* ip4[1]&0xf0 == 16 ; ip[0]&0xfe == 0xfc
IsPrivate(ip) ==
    IF To4(ip) # NilIP
    THEN LET ip4 == To4(ip) IN
         \/ ip4[1] = 10
         \/ (ip4[1] = 172 /\ (ip4[2] \div 16) * 16 = 16)
         \/ (ip4[1] = 192 /\ ip4[2] = 168)
    ELSE Len(ip) = 16 /\ (ip[1] \div 2) * 2 = 252

\* ip4[0]&0xf0 == 0xe0 ; ip[0] == 0xff
IsMulticast(ip) ==
    IF To4(ip) # NilIP THEN (To4(ip)[1] \div 16) * 16 = 224
    ELSE Len(ip) = 16 /\ ip[1] = 255

\* ip[0] == 0xfe && ip[1]&0xc0 == 0x80
IsLinkLocalUnicast(ip) ==
    IF To4(ip) # NilIP THEN To4(ip)[1] = 169 /\ To4(ip)[2] = 254
    ELSE Len(ip) = 16 /\ ip[1] = 254 /\ (ip[2] \div 64) * 64 = 128

\* ip[0] == 0xff && ip[1]&0x0f == 0x02
IsLinkLocalMulticast(ip) ==
    IF To4(ip) # NilIP THEN To4(ip)[1] = 224 /\ To4(ip)[2] = 0 /\ To4(ip)[3] = 0
    ELSE Len(ip) = 16 /\ ip[1] = 255 /\ ip[2] % 16 = 2

\* isAlwaysBlockedIP with the multicast test left out
isAlwaysBlockedIP_NoMulticast(ip) ==
    IF ip = NilIP THEN FALSE
    ELSE IF IsUnspecified(ip) THEN TRUE
    ELSE IF To4(ip) # NilIP
         THEN LET ip4 == To4(ip) IN
              \/ ip4[1] = 0
              \/ (ip4[1] = 255 /\ ip4[2] = 255 /\ ip4[3] = 255 /\ ip4[4] = 255)
         ELSE FALSE

isAlwaysBlockedIP(ip) ==
    IF ip = NilIP THEN FALSE
    ELSE IF IsUnspecified(ip) \/ IsMulticast(ip) THEN TRUE
    ELSE IF To4(ip) # NilIP
         THEN LET ip4 == To4(ip) IN
              \/ ip4[1] = 0
              \/ (ip4[1] = 255 /\ ip4[2] = 255 /\ ip4[3] = 255 /\ ip4[4] = 255)
         ELSE FALSE

\* isPrivateIP without the carrier-grade NAT range
isPrivateIP_NoCGNAT(ip) ==
    IF ip = NilIP THEN FALSE
    ELSE IF IsPrivate(ip) \/ IsLoopback(ip) \/ IsLinkLocalUnicast(ip) \/ IsLinkLocalMulticast(ip)
         THEN TRUE
    ELSE IF To4(ip) # NilIP
         THEN LET ip4 == To4(ip) IN
              \/ (ip4[1] = 169 /\ ip4[2] = 254)
              \/ (ip4[1] = 198 /\ (ip4[2] = 18 \/ ip4[2] = 19))
         ELSE FALSE

\* isPrivateIP with the carrier-grade NAT range open at the top
isPrivateIP_WideCGNAT(ip) ==
    IF ip = NilIP THEN FALSE
    ELSE IF IsPrivate(ip) \/ IsLoopback(ip) \/ IsLinkLocalUnicast(ip) \/ IsLinkLocalMulticast(ip)
         THEN TRUE
    ELSE IF To4(ip) # NilIP
         THEN LET ip4 == To4(ip) IN
              \/ (ip4[1] = 100 /\ ip4[2] >= 64)
              \/ (ip4[1] = 169 /\ ip4[2] = 254)
              \/ (ip4[1] = 198 /\ (ip4[2] = 18 \/ ip4[2] = 19))
         ELSE FALSE

isPrivateIP(ip) ==
    IF ip = NilIP THEN FALSE
    ELSE IF IsPrivate(ip) \/ IsLoopback(ip) \/ IsLinkLocalUnicast(ip) \/ IsLinkLocalMulticast(ip)
         THEN TRUE
    ELSE IF To4(ip) # NilIP
         THEN LET ip4 == To4(ip) IN
              \/ (ip4[1] = 100 /\ ip4[2] >= 64 /\ ip4[2] <= 127)
              \/ (ip4[1] = 169 /\ ip4[2] = 254)
              \/ (ip4[1] = 198 /\ (ip4[2] = 18 \/ ip4[2] = 19))
         ELSE FALSE

(* ============================== errors ================================= *)

\* fmt.Errorf(format, args...): the words of the format and the arguments
Errorf(words, args) == [msg |-> words, with |-> args]

\* a nil error
NoErr == [msg |-> <<>>, with |-> <<>>]

\* strings.Contains(err.Error(), w) for a word w of the format
Names(err, w) == \E i \in 1..Len(err.msg) : err.msg[i] = w

(* ============================ URL inputs =============================== *)

\* strings.ToLower on the scheme and host names that occur
ToLower(s) ==
    CASE s = "HTTP" -> "http"
      [] s = "HTTPS" -> "https"
      [] s = "FTP" -> "ftp"
      [] s = "LocalHost" -> "localhost"
      [] OTHER -> s

\* strings.EqualFold (ASCII)
EqualFold(a, b) == ToLower(a) = ToLower(b)

\* Host texts. name: a symbolic name; v4: dotted decimal a.b.c.d;
\* v6: an IPv6 literal, written in its shortest form ("::1") or in full
\* ("0:0:0:0:0:0:0:1"); none: the URL has no host.
NoHost == [kind |-> "none"]
NameHost(s) == [kind |-> "name", s |-> s]
V4Host(b) == [kind |-> "v4", b |-> b]
V6Host(b, form) == [kind |-> "v6", b |-> b, form |-> form]

Octet1 == {0, 1, 8, 10, 11, 100, 127, 128, 169, 172, 192, 198, 224, 239, 240, 255}
Octet2 == {0, 15, 16, 18, 19, 20, 31, 32, 63, 64, 127, 128, 168, 169, 254, 255}

V4Addrs ==
    {<<a, b, 0, 1>> : a \in Octet1, b \in Octet2}
    \cup {<<a, 0, 0, 0>> : a \in Octet1}
    \cup {<<a, 255, 255, 255>> : a \in Octet1}
    \cup {<<198, 17, 255, 255>>, <<172, 15, 255, 255>>, <<100, 63, 255, 255>>}

V6Byte1 == {0, 32, 100, 252, 253, 254, 255}
V6Byte2 == {0, 1, 2, 18, 128, 191, 192}

V6Addrs ==
    {<<a, b>> \o Zeros(13) \o <<c>> : a \in V6Byte1, b \in V6Byte2, c \in {0, 1}}
    \cup {v4InV6(b) : b \in {<<0, 0, 0, 0>>, <<127, 0, 0, 1>>, <<10, 0, 0, 1>>, <<8, 8, 8, 8>>,
                             <<224, 0, 0, 1>>, <<255, 255, 255, 255>>, <<169, 254, 169, 254>>}}

HostNames == {"localhost", "LocalHost", "example.com", "intranet.test"}

Hosts ==
    {NoHost} \cup {NameHost(s) : s \in HostNames}
    \cup {V4Host(b) : b \in V4Addrs}
    \cup {V6Host(b, f) : b \in V6Addrs, f \in {"short", "full"}}

\* A URL string. empty: ""; garbage: "not-a-url"; path: "/etc/passwd";
\* full: scheme "://" [userinfo "@"] host "/..."
EmptyURL == [shape |-> "empty"]
GarbageURL == [shape |-> "garbage"]
PathURL == [shape |-> "path"]
FullURL(scheme, user, host) == [shape |-> "full", scheme |-> scheme, user |-> user, host |-> host]

WrittenSchemes == {"http", "HTTPS", "ftp", "file"}

URLStrings ==
    {EmptyURL, GarbageURL, PathURL}
    \cup {FullURL(sc, us, h) : sc \in WrittenSchemes, us \in BOOLEAN, h \in Hosts}

\* a []string that may be nil
NilSlice == [isNil |-> TRUE, elems |-> <<>>]
Slice(q) == [isNil |-> FALSE, elems |-> q]

SchemeLists == {NilSlice, Slice(<<>>), Slice(<<"ftp">>), Slice(<<"HTTP", "https">>)}

NilURLOptions == [isNil |-> TRUE]

URLOptions(schemes, al, ap, t) ==
    [isNil |-> FALSE, AllowedSchemes |-> schemes, AllowLocalhost |-> al,
     AllowPrivateIP |-> ap, ResolveHostTimeout |-> t]

URLOptionValues ==
    {NilURLOptions}
    \cup {URLOptions(sl, al, ap, t) : sl \in SchemeLists, al \in BOOLEAN, ap \in BOOLEAN,
                                      t \in {0, DefaultResolveSeconds}}

defaultURLOptions ==
    URLOptions(Slice(<<"http", "https">>), FALSE, FALSE, DefaultResolveSeconds)

\* normalizeURLOptions replacing a zero timeout by the default one
normalizeURLOptions_ZeroTimeoutDefault(opts) ==
    IF opts.isNil THEN defaultURLOptions
    ELSE URLOptions(IF ~opts.AllowedSchemes.isNil THEN opts.AllowedSchemes
                    ELSE defaultURLOptions.AllowedSchemes,
                    opts.AllowLocalhost, opts.AllowPrivateIP,
                    IF opts.ResolveHostTimeout = 0 THEN DefaultResolveSeconds
                    ELSE opts.ResolveHostTimeout)

\* normalizeURLOptions keeping the default schemes unless the caller's list has entries
normalizeURLOptions_EmptySchemesDefault(opts) ==
    IF opts.isNil THEN defaultURLOptions
    ELSE URLOptions(IF Len(opts.AllowedSchemes.elems) > 0 THEN opts.AllowedSchemes
                    ELSE defaultURLOptions.AllowedSchemes,
                    opts.AllowLocalhost, opts.AllowPrivateIP, opts.ResolveHostTimeout)

normalizeURLOptions(opts) ==
    IF opts.isNil THEN defaultURLOptions
    ELSE URLOptions(IF ~opts.AllowedSchemes.isNil THEN opts.AllowedSchemes
                    ELSE defaultURLOptions.AllowedSchemes,
                    opts.AllowLocalhost, opts.AllowPrivateIP, opts.ResolveHostTimeout)

\* url.ParseRequestURI: ok, Scheme (lower-cased), User # nil, Hostname()
ParseRequestURI(urlStr) ==
    CASE urlStr.shape = "garbage" -> [ok |-> FALSE, Scheme |-> "", User |-> FALSE, Host |-> NoHost]
      [] urlStr.shape = "path" -> [ok |-> TRUE, Scheme |-> "", User |-> FALSE, Host |-> NoHost]
      [] urlStr.shape = "full" -> [ok |-> TRUE, Scheme |-> ToLower(urlStr.scheme),
                                   User |-> urlStr.user, Host |-> urlStr.host]
      [] OTHER -> [ok |-> FALSE, Scheme |-> "", User |-> FALSE, Host |-> NoHost]

NoURL == [ok |-> FALSE, Scheme |-> "", User |-> FALSE, Host |-> NoHost]

\* net.ParseIP(host): the 16-byte address of an IP literal, nil for anything else
ParseIP(host) ==
    CASE host.kind = "v4" -> v4InV6(host.b)
      [] host.kind = "v6" -> host.b
      [] OTHER -> NilIP

\* hostLower == "localhost" || hostLower == "127.0.0.1" || hostLower == "::1"
IsLocalhostText(host) ==
    \/ (host.kind = "name" /\ ToLower(host.s) = "localhost")
    \/ (host.kind = "v4" /\ host.b = <<127, 0, 0, 1>>)
    \/ (host.kind = "v6" /\ host.form = "short" /\ host.b = IPv6loopback)

\* schemeAllowed comparing with == instead of strings.EqualFold
schemeAllowed_CaseSensitive(scheme, allowed) ==
    \E i \in 1..Len(allowed) : scheme = allowed[i]

schemeAllowed(scheme, allowed) ==
    \E i \in 1..Len(allowed) : EqualFold(scheme, allowed[i])

ErrNonRoutable == Errorf(<<"access", "to", "non-routable", "IP", "address", "is", "not", "allowed:", "%s">>, <<>>)
ErrLoopback == Errorf(<<"access", "to", "loopback", "address", "is", "not", "allowed:", "%s">>, <<>>)
ErrPrivate == Errorf(<<"access", "to", "private", "IP", "address", "is", "not", "allowed:", "%s">>, <<>>)
ErrEmptyURL == Errorf(<<"URL", "cannot", "be", "empty">>, <<>>)
ErrURLFormat == Errorf(<<"invalid", "URL", "format:", "%w">>, <<>>)
ErrUserInfo == Errorf(<<"URL", "cannot", "include", "user", "info">>, <<>>)
ErrScheme(scheme, allowed) ==
    Errorf(<<"scheme", "%q", "is", "not", "allowed,", "allowed", "schemes:", "%v">>, <<scheme, allowed>>)
ErrNoHost == Errorf(<<"URL", "must", "contain", "a", "valid", "host">>, <<>>)
ErrLocalhost == Errorf(<<"access", "to", "localhost", "is", "not", "allowed">>, <<>>)
ErrResolve == Errorf(<<"failed", "to", "resolve", "host", "%q:", "%w">>, <<>>)
ErrNoAddrs == Errorf(<<"host", "%q", "resolved", "to", "no", "addresses">>, <<>>)

\* checkIPAllowed without the loopback gate
checkIPAllowed_NoLoopbackGate(ip, opts) ==
    IF isAlwaysBlockedIP(ip) THEN ErrNonRoutable
    ELSE IF ~opts.AllowPrivateIP /\ isPrivateIP(ip)
         THEN IF opts.AllowLocalhost /\ IsLoopback(ip) THEN NoErr ELSE ErrPrivate
    ELSE NoErr

checkIPAllowed(ip, opts) ==
    IF isAlwaysBlockedIP(ip) THEN ErrNonRoutable
    ELSE IF ~opts.AllowLocalhost /\ IsLoopback(ip) THEN ErrLoopback
    ELSE IF ~opts.AllowPrivateIP /\ isPrivateIP(ip)
         THEN IF opts.AllowLocalhost /\ IsLoopback(ip) THEN NoErr ELSE ErrPrivate
    ELSE NoErr

\* what the resolver may answer: an error (NXDOMAIN, timeout) or addresses
DNSAddrs ==
    {<<8, 8, 8, 8>>, <<10, 0, 0, 1>>, <<127, 0, 0, 1>>, <<0, 0, 0, 0>>, <<224, 0, 0, 1>>,
     IPv6loopback, <<32, 1>> \o Zeros(13) \o <<1>>}

SeqsUpTo(S, n) == UNION {[1..k -> S] : k \in 0..n}

\* no lookup was made
NoAnswer == [ok |-> TRUE, addrs |-> <<>>]

DNSAnswers ==
    {[ok |-> FALSE, addrs |-> <<>>]}
    \cup {[ok |-> TRUE, addrs |-> a] : a \in SeqsUpTo(DNSAddrs, MaxAddrs)}

(* ====================== ValidateURL as a process ======================= *)

URLIdle ==
    /\ upc = "idle"
    /\ urlArg = EmptyURL
    /\ uopts = NilURLOptions
    /\ nopts = defaultURLOptions
    /\ u = NoURL
    /\ dns = NoAnswer
    /\ addrs = <<>>
    /\ idx = 0
    /\ uerr = NoErr
    /\ lookups = 0
    /\ checked = 0

URLDone(err) ==
    /\ upc' = "done"
    /\ uerr' = err

\* a caller invokes ValidateURL(urlStr, opts)
URLCall ==
    /\ upc = "idle"
    /\ \E s \in URLStrings, o \in URLOptionValues :
        /\ urlArg' = s
        /\ uopts' = o
    /\ upc' = "parse"
    /\ UNCHANGED <<nopts, u, dns, addrs, idx, uerr, lookups, checked>>
    /\ UNCHANGED nonURLVars

\* URLParse without the user-info gate
URLParse_NoUserInfo ==
    /\ upc = "parse"
    /\ IF urlArg.shape = "empty"
       THEN URLDone(ErrEmptyURL) /\ UNCHANGED <<nopts, u>>
       ELSE /\ nopts' = normalizeURLOptions(uopts)
            /\ LET parsed == ParseRequestURI(urlArg) IN
               IF ~parsed.ok THEN URLDone(ErrURLFormat) /\ UNCHANGED u
               ELSE /\ u' = parsed
                    /\ upc' = "scheme"
                    /\ UNCHANGED uerr
    /\ UNCHANGED <<urlArg, uopts, dns, addrs, idx, lookups, checked>>
    /\ UNCHANGED nonURLVars

\* URLParse with the scheme looked at before the user info
URLParse_SchemeBeforeUser ==
    /\ upc = "parse"
    /\ IF urlArg.shape = "empty"
       THEN URLDone(ErrEmptyURL) /\ UNCHANGED <<nopts, u>>
       ELSE /\ nopts' = normalizeURLOptions(uopts)
            /\ LET parsed == ParseRequestURI(urlArg)
                   n == normalizeURLOptions(uopts) IN
               IF ~parsed.ok THEN URLDone(ErrURLFormat) /\ UNCHANGED u
               ELSE IF parsed.User /\ Len(n.AllowedSchemes.elems) > 0
                       /\ ~schemeAllowed(parsed.Scheme, n.AllowedSchemes.elems)
                    THEN URLDone(ErrScheme(parsed.Scheme, n.AllowedSchemes.elems)) /\ u' = parsed
               ELSE IF parsed.User THEN URLDone(ErrUserInfo) /\ u' = parsed
               ELSE /\ u' = parsed
                    /\ upc' = "scheme"
                    /\ UNCHANGED uerr
    /\ UNCHANGED <<urlArg, uopts, dns, addrs, idx, lookups, checked>>
    /\ UNCHANGED nonURLVars

\* empty check, option normalisation, parse, user-info check
URLParse ==
    /\ upc = "parse"
    /\ IF urlArg.shape = "empty"
       THEN URLDone(ErrEmptyURL) /\ UNCHANGED <<nopts, u>>
       ELSE /\ nopts' = normalizeURLOptions(uopts)
            /\ LET parsed == ParseRequestURI(urlArg) IN
               IF ~parsed.ok THEN URLDone(ErrURLFormat) /\ UNCHANGED u
               ELSE IF parsed.User THEN URLDone(ErrUserInfo) /\ u' = parsed
               ELSE /\ u' = parsed
                    /\ upc' = "scheme"
                    /\ UNCHANGED uerr
    /\ UNCHANGED <<urlArg, uopts, dns, addrs, idx, lookups, checked>>
    /\ UNCHANGED nonURLVars

\* scheme gate
URLScheme ==
    /\ upc = "scheme"
    /\ IF Len(nopts.AllowedSchemes.elems) > 0
          /\ ~schemeAllowed(u.Scheme, nopts.AllowedSchemes.elems)
       THEN URLDone(ErrScheme(u.Scheme, nopts.AllowedSchemes.elems))
       ELSE upc' = "host" /\ UNCHANGED uerr
    /\ UNCHANGED <<urlArg, uopts, nopts, u, dns, addrs, idx, lookups, checked>>
    /\ UNCHANGED nonURLVars

\* host gate and the localhost name check
URLHost ==
    /\ upc = "host"
    /\ IF u.Host.kind = "none" THEN URLDone(ErrNoHost)
       ELSE IF ~nopts.AllowLocalhost /\ IsLocalhostText(u.Host) THEN URLDone(ErrLocalhost)
       ELSE upc' = "ip" /\ UNCHANGED uerr
    /\ UNCHANGED <<urlArg, uopts, nopts, u, dns, addrs, idx, lookups, checked>>
    /\ UNCHANGED nonURLVars

\* the host is an IP literal: one policy check decides
URLLiteralIP ==
    /\ upc = "ip"
    /\ ParseIP(u.Host) # NilIP
    /\ URLDone(checkIPAllowed(ParseIP(u.Host), nopts))
    /\ checked' = checked + 1
    /\ UNCHANGED <<urlArg, uopts, nopts, u, dns, addrs, idx, lookups>>
    /\ UNCHANGED nonURLVars

\* URLSkipResolve asking the resolver although the timeout is 0
URLSkipResolve_LooksUp ==
    /\ upc = "ip"
    /\ ParseIP(u.Host) = NilIP
    /\ ~(nopts.ResolveHostTimeout > 0)
    /\ lookups' = lookups + 1
    /\ URLDone(NoErr)
    /\ UNCHANGED <<urlArg, uopts, nopts, u, dns, addrs, idx, checked>>
    /\ UNCHANGED nonURLVars

\* the host is a name and ResolveHostTimeout is 0: accepted without lookup
URLSkipResolve ==
    /\ upc = "ip"
    /\ ParseIP(u.Host) = NilIP
    /\ ~(nopts.ResolveHostTimeout > 0)
    /\ URLDone(NoErr)
    /\ UNCHANGED <<urlArg, uopts, nopts, u, dns, addrs, idx, lookups, checked>>
    /\ UNCHANGED nonURLVars

\* URLLookup without the test for an empty answer
URLLookup_NoEmptyCheck ==
    /\ upc = "ip"
    /\ ParseIP(u.Host) = NilIP
    /\ nopts.ResolveHostTimeout > 0
    /\ lookups' = lookups + 1
    /\ \E ans \in DNSAnswers :
        /\ dns' = ans
        /\ addrs' = ans.addrs
        /\ IF ~ans.ok THEN URLDone(ErrResolve) /\ UNCHANGED idx
           ELSE IF Len(ans.addrs) = 0 THEN URLDone(NoErr) /\ UNCHANGED idx
           ELSE /\ idx' = 1
                /\ upc' = "loop"
                /\ UNCHANGED uerr
    /\ UNCHANGED <<urlArg, uopts, nopts, u, checked>>
    /\ UNCHANGED nonURLVars

\* the host is a name and ResolveHostTimeout > 0: resolver.LookupIPAddr
URLLookup ==
    /\ upc = "ip"
    /\ ParseIP(u.Host) = NilIP
    /\ nopts.ResolveHostTimeout > 0
    /\ lookups' = lookups + 1
    /\ \E ans \in DNSAnswers :
        /\ dns' = ans
        /\ addrs' = ans.addrs
        /\ IF ~ans.ok THEN URLDone(ErrResolve) /\ UNCHANGED idx
           ELSE IF Len(ans.addrs) = 0 THEN URLDone(ErrNoAddrs) /\ UNCHANGED idx
           ELSE /\ idx' = 1
                /\ upc' = "loop"
                /\ UNCHANGED uerr
    /\ UNCHANGED <<urlArg, uopts, nopts, u, checked>>
    /\ UNCHANGED nonURLVars

\* URLCheckAddr returning after the first address instead of looping
URLCheckAddr_FirstOnly ==
    /\ upc = "loop"
    /\ checked' = checked + 1
    /\ URLDone(checkIPAllowed(addrs[idx], nopts))
    /\ UNCHANGED <<urlArg, uopts, nopts, u, dns, addrs, idx, lookups>>
    /\ UNCHANGED nonURLVars

\* one iteration of the loop over the resolved addresses
URLCheckAddr ==
    /\ upc = "loop"
    /\ checked' = checked + 1
    /\ LET err == checkIPAllowed(addrs[idx], nopts) IN
       IF err # NoErr THEN URLDone(err) /\ UNCHANGED idx
       ELSE IF idx = Len(addrs) THEN URLDone(NoErr) /\ UNCHANGED idx
       ELSE idx' = idx + 1 /\ UNCHANGED <<upc, uerr>>
    /\ UNCHANGED <<urlArg, uopts, nopts, u, dns, addrs, lookups>>
    /\ UNCHANGED nonURLVars

\* the call has returned; the next call starts from scratch
URLReturn ==
    /\ upc = "done"
    /\ upc' = "idle"
    /\ urlArg' = EmptyURL
    /\ uopts' = NilURLOptions
    /\ nopts' = defaultURLOptions
    /\ u' = NoURL
    /\ dns' = NoAnswer
    /\ addrs' = <<>>
    /\ idx' = 0
    /\ uerr' = NoErr
    /\ lookups' = 0
    /\ checked' = 0
    /\ UNCHANGED nonURLVars

(* ============================ path strings ============================= *)

\* a path string is a sequence of one-character strings
Sep == "/"
Chars == {"/", ".", "a"}

HasPrefix(s, prefix) ==
    Len(prefix) <= Len(s) /\ SubSeq(s, 1, Len(prefix)) = prefix

\* strings.Contains
Contains(s, sub) ==
    \E i \in 1..(Len(s) - Len(sub) + 1) : SubSeq(s, i, i + Len(sub) - 1) = sub

\* strings.Split(s, sep) for a one-character sep
RECURSIVE SplitFrom(_, _, _, _)
SplitFrom(s, sep, i, cur) ==
    IF i > Len(s) THEN <<cur>>
    ELSE IF s[i] = sep THEN <<cur>> \o SplitFrom(s, sep, i + 1, <<>>)
    ELSE SplitFrom(s, sep, i + 1, Append(cur, s[i]))

Split(s, sep) == SplitFrom(s, sep, 1, <<>>)

\* strings.Join(parts, sep)
RECURSIVE JoinParts(_, _)
JoinParts(parts, sep) ==
    IF Len(parts) = 0 THEN <<>>
    ELSE IF Len(parts) = 1 THEN parts[1]
    ELSE parts[1] \o <<sep>> \o JoinParts(Tail(parts), sep)

IsAbs(path) == Len(path) > 0 /\ path[1] = Sep

\* filepath.Clean: the elements kept after dropping empty and "." elements
\* and cancelling ".." against the element before it
RECURSIVE CleanParts(_, _, _, _)
CleanParts(parts, i, rooted, out) ==
    IF i > Len(parts) THEN out
    ELSE LET e == parts[i] IN
         IF e = <<>> \/ e = <<".">> THEN CleanParts(parts, i + 1, rooted, out)
         ELSE IF e = <<".", ".">>
              THEN IF Len(out) > 0 /\ out[Len(out)] # <<".", ".">>
                   THEN CleanParts(parts, i + 1, rooted, SubSeq(out, 1, Len(out) - 1))
                   ELSE IF ~rooted THEN CleanParts(parts, i + 1, rooted, Append(out, e))
                   ELSE CleanParts(parts, i + 1, rooted, out)
         ELSE CleanParts(parts, i + 1, rooted, Append(out, e))

Clean(path) ==
    IF path = <<>> THEN <<".">>
    ELSE LET rooted == IsAbs(path)
             kept == JoinParts(CleanParts(Split(path, Sep), 1, rooted, <<>>), Sep)
         IN IF rooted THEN <<Sep>> \o kept
            ELSE IF kept = <<>> THEN <<".">> ELSE kept

\* filepath.Join(wd, path)
Join(wd, path) ==
    IF path = <<>> THEN Clean(wd) ELSE Clean(wd \o <<Sep>> \o path)

\* filepath.Abs returning an absolute input as written, without Clean
Abs_NoClean(path, wd) ==
    IF IsAbs(path) THEN [ok |-> TRUE, path |-> path]
    ELSE IF ~wd.ok THEN [ok |-> FALSE, path |-> <<>>]
    ELSE [ok |-> TRUE, path |-> Join(wd.path, path)]

\* filepath.Abs joining the working directory to absolute paths too
Abs_AlwaysJoins(path, wd) ==
    IF ~wd.ok THEN [ok |-> FALSE, path |-> <<>>]
    ELSE [ok |-> TRUE, path |-> Join(wd.path, path)]

\* filepath.Abs: fails only when the working directory cannot be determined
Abs(path, wd) ==
    IF IsAbs(path) THEN [ok |-> TRUE, path |-> Clean(path)]
    ELSE IF ~wd.ok THEN [ok |-> FALSE, path |-> <<>>]
    ELSE [ok |-> TRUE, path |-> Join(wd.path, path)]

containsTraversalSegment(path) ==
    LET parts == Split(path, Sep) IN
    \E i \in 1..Len(parts) : parts[i] = <<".", ".">>

(* ============================ ValidatePath ============================= *)

NilPathOptions == [isNil |-> TRUE]

PathOptions(ar, dirs, ct) ==
    [isNil |-> FALSE, AllowRelative |-> ar, AllowedDirs |-> dirs, CheckTraversal |-> ct]

defaultPathOptions == PathOptions(TRUE, <<>>, TRUE)

ErrPathEmpty == Errorf(<<"path", "cannot", "be", "empty">>, <<>>)
ErrTraversal == Errorf(<<"path", "cannot", "contain", "path", "traversal", "characters", "(..)">>, <<>>)
ErrPathParse == Errorf(<<"unable", "to", "parse", "path:", "%w">>, <<>>)
ErrNotAllowed == Errorf(<<"path", "is", "not", "under", "allowed", "directories">>, <<>>)

PathResult(path, err) == [path |-> path, err |-> err]

\* dirAdmits with a plain string-prefix test
dirAdmits_StringPrefix(absPath, allowedDir, wd) ==
    LET a == Abs(allowedDir, wd) IN
    IF ~a.ok THEN FALSE
    ELSE HasPrefix(absPath, Clean(a.path))

\* one allowed directory admits absPath: equal, or a separator-bounded prefix
dirAdmits(absPath, allowedDir, wd) ==
    LET a == Abs(allowedDir, wd) IN
    IF ~a.ok THEN FALSE
    ELSE LET allowedAbsDir == Clean(a.path) IN
         \/ absPath = allowedAbsDir
         \/ HasPrefix(absPath, allowedAbsDir \o <<Sep>>)

\* the loop over opts.AllowedDirs, leaving at the first directory that admits
RECURSIVE allowedLoop(_, _, _, _)
allowedLoop(absPath, dirs, i, wd) ==
    IF i > Len(dirs) THEN FALSE
    ELSE IF dirAdmits(absPath, dirs[i], wd) THEN TRUE
    ELSE allowedLoop(absPath, dirs, i + 1, wd)

\* rawTraversal looking only at the start of the input
rawTraversal_LeadingOnly(path) == HasPrefix(path, <<".", ".">>)

\* the raw-input traversal gate
rawTraversal(path) == Contains(path, <<".", ".">>)

\* ValidatePath returning the path together with the allowlist error
ValidatePath_PathWithError(path, optsArg, wd) ==
    IF path = <<>> THEN PathResult(<<>>, ErrPathEmpty)
    ELSE LET opts == IF optsArg.isNil THEN defaultPathOptions ELSE optsArg IN
    IF opts.CheckTraversal /\ rawTraversal(path) THEN PathResult(<<>>, ErrTraversal)
    ELSE LET abs == Abs(path, wd) IN
    IF ~abs.ok THEN PathResult(<<>>, ErrPathParse)
    ELSE IF opts.CheckTraversal /\ containsTraversalSegment(Clean(abs.path))
         THEN PathResult(<<>>, ErrTraversal)
    ELSE LET absPath == IF opts.CheckTraversal THEN Clean(abs.path) ELSE abs.path IN
    IF Len(opts.AllowedDirs) > 0 /\ ~allowedLoop(absPath, opts.AllowedDirs, 1, wd)
    THEN PathResult(absPath, ErrNotAllowed)
    ELSE PathResult(absPath, NoErr)

\* ValidatePath whose allowlist error lists the allowed directories
ValidatePath_ListsDirs(path, optsArg, wd) ==
    IF path = <<>> THEN PathResult(<<>>, ErrPathEmpty)
    ELSE LET opts == IF optsArg.isNil THEN defaultPathOptions ELSE optsArg IN
    IF opts.CheckTraversal /\ rawTraversal(path) THEN PathResult(<<>>, ErrTraversal)
    ELSE LET abs == Abs(path, wd) IN
    IF ~abs.ok THEN PathResult(<<>>, ErrPathParse)
    ELSE IF opts.CheckTraversal /\ containsTraversalSegment(Clean(abs.path))
         THEN PathResult(<<>>, ErrTraversal)
    ELSE LET absPath == IF opts.CheckTraversal THEN Clean(abs.path) ELSE abs.path IN
    IF Len(opts.AllowedDirs) > 0 /\ ~allowedLoop(absPath, opts.AllowedDirs, 1, wd)
    THEN PathResult(<<>>, Errorf(<<"path", "must", "be", "under", "allowed", "directories:", "%v">>,
                                 <<opts.AllowedDirs>>))
    ELSE PathResult(absPath, NoErr)

ValidatePath(path, optsArg, wd) ==
    IF path = <<>> THEN PathResult(<<>>, ErrPathEmpty)
    ELSE LET opts == IF optsArg.isNil THEN defaultPathOptions ELSE optsArg IN
    IF opts.CheckTraversal /\ rawTraversal(path) THEN PathResult(<<>>, ErrTraversal)
    ELSE LET abs == Abs(path, wd) IN
    IF ~abs.ok THEN PathResult(<<>>, ErrPathParse)
    ELSE IF opts.CheckTraversal /\ containsTraversalSegment(Clean(abs.path))
         THEN PathResult(<<>>, ErrTraversal)
    ELSE LET absPath == IF opts.CheckTraversal THEN Clean(abs.path) ELSE abs.path IN
    IF Len(opts.AllowedDirs) > 0 /\ ~allowedLoop(absPath, opts.AllowedDirs, 1, wd)
    THEN PathResult(<<>>, ErrNotAllowed)
    ELSE PathResult(absPath, NoErr)

(* ====================== ValidatePath as a process ====================== *)

SeqsOver(S, n) == UNION {[1..k -> S] : k \in 0..n}

\* every input string up to MaxLen characters, the empty one included
PathStrings == SeqsOver(Chars, MaxLen)

\* "/", "/a", "/a/", "a", "/aa"
DirChoices ==
    {<<"/">>, <<"/", "a">>, <<"/", "a", "/">>, <<"a">>, <<"/", "a", "a">>}

AllowedDirLists == SeqsOver(DirChoices, MaxDirs)

PathOptionValues ==
    {NilPathOptions}
    \cup {PathOptions(ar, dirs, ct) : ar \in BOOLEAN, dirs \in AllowedDirLists, ct \in BOOLEAN}

\* os.Getwd: the working directory, or a failure
WorkDirs ==
    {[ok |-> TRUE, path |-> <<"/", "a">>], [ok |-> FALSE, path |-> <<>>]}

\* a working directory whose name has two dots in a row: /a..
DottedWorkDir == [ok |-> TRUE, path |-> <<"/", "a", ".", ".">>]

\* the symbolic link an actor may create: /a/a -> /aa
Symlinks == {[link |-> <<"/", "a", "/", "a">>, target |-> <<"/", "a", "a">>]}

PathIdle ==
    /\ ppc = "idle"
    /\ pathArg = <<>>
    /\ popts = NilPathOptions
    /\ cwd = [ok |-> TRUE, path |-> <<"/">>]
    /\ pres = PathResult(<<>>, NoErr)

\* a caller invokes ValidatePath(path, opts)
PathCall ==
    /\ ppc = "idle"
    /\ \E p \in PathStrings, o \in PathOptionValues, w \in WorkDirs :
        /\ pathArg' = p
        /\ popts' = o
        /\ cwd' = w
    /\ ppc' = "run"
    /\ UNCHANGED <<pres, fs>>
    /\ UNCHANGED nonPathVars

\* a caller whose working directory is /a.. invokes ValidatePath(path, opts)
PathCallDotted ==
    /\ ppc = "idle"
    /\ \E q \in PathStrings, o \in PathOptionValues :
        /\ pathArg' = q
        /\ popts' = o
    /\ cwd' = DottedWorkDir
    /\ ppc' = "run"
    /\ UNCHANGED <<pres, fs>>
    /\ UNCHANGED nonPathVars

\* the body of ValidatePath runs to its return
PathValidate ==
    /\ ppc = "run"
    /\ pres' = ValidatePath(pathArg, popts, cwd)
    /\ ppc' = "done"
    /\ UNCHANGED <<pathArg, popts, cwd, fs>>
    /\ UNCHANGED nonPathVars

\* the caller hands the returned path to ValidatePath again, with the same
\* options and working directory
PathAgain ==
    /\ ppc = "done"
    /\ pres.err = NoErr
    /\ pathArg' = pres.path
    /\ pres' = ValidatePath(pres.path, popts, cwd)
    /\ ppc' = "again"
    /\ UNCHANGED <<popts, cwd, fs>>
    /\ UNCHANGED nonPathVars

PathReturn ==
    /\ ppc \in {"done", "again"}
    /\ ppc' = "idle"
    /\ pathArg' = <<>>
    /\ popts' = NilPathOptions
    /\ cwd' = [ok |-> TRUE, path |-> <<"/">>]
    /\ pres' = PathResult(<<>>, NoErr)
    /\ UNCHANGED fs
    /\ UNCHANGED nonPathVars

\* another actor creates a symbolic link
FSLink ==
    /\ ppc = "idle"
    /\ \E l \in Symlinks \ fs : fs' = fs \cup {l}
    /\ UNCHANGED <<ppc, pathArg, popts, cwd, pres>>
    /\ UNCHANGED nonPathVars

\* another actor removes a symbolic link
FSUnlink ==
    /\ ppc = "idle"
    /\ \E l \in fs : fs' = fs \ {l}
    /\ UNCHANGED <<ppc, pathArg, popts, cwd, pres>>
    /\ UNCHANGED nonPathVars

(* ======================== flagutil and env ============================= *)

\* the texts a flag or an environment variable may hold
Texts == {"", "0", "42", " 42 ", "abc", "true", "5s", "65535", "65536"}

\* a flag that was not given on the command line, a variable that is unset
NotSet == [set |-> FALSE, text |-> ""]
SetTo(t) == [set |-> TRUE, text |-> t]

Entries == {NotSet} \cup {SetTo(t) : t \in Texts}

\* the result of a parse: (value, err == nil)
Parsed(v) == [ok |-> TRUE, v |-> v]

\* strconv.Atoi on the texts that occur
Atoi(t) ==
    CASE t = "0" -> Parsed(0)
      [] t = "42" -> Parsed(42)
      [] t = "65535" -> Parsed(65535)
      [] t = "65536" -> Parsed(65536)
      [] OTHER -> [ok |-> FALSE, v |-> 0]

\* strconv.ParseInt(t, 10, 64)
ParseInt(t) == Atoi(t)

\* strconv.ParseBool accepts 1, t, T, TRUE, true, True, 0, f, F, FALSE, false, False
ParseBool(t) ==
    CASE t = "true" -> Parsed(TRUE)
      [] t = "0" -> Parsed(FALSE)
      [] OTHER -> [ok |-> FALSE, v |-> FALSE]

\* time.ParseDuration, in seconds: "0" is valid, a number without a unit is not
ParseDuration(t) ==
    CASE t = "0" -> Parsed(0)
      [] t = "5s" -> Parsed(5)
      [] OTHER -> [ok |-> FALSE, v |-> 0]

\* strings.TrimSpace
TrimSpace(t) == IF t = " 42 " THEN "42" ELSE t

\* flagutil.HasFlag: fs.Visit reaches only the flags that were set
HasFlag(fl) == fl.set

\* flagutil.GetFlagValue: (text, true) for a flag that was set
GetFlagValue(fl) ==
    IF ~HasFlag(fl) THEN [value |-> "", ok |-> FALSE]
    ELSE [value |-> fl.text, ok |-> TRUE]

FlagGetString(fl, defaultValue) ==
    LET r == GetFlagValue(fl) IN IF ~r.ok THEN defaultValue ELSE r.value

FlagGetInt(fl, defaultValue) ==
    LET r == GetFlagValue(fl) IN
    IF ~r.ok THEN defaultValue
    ELSE IF Atoi(r.value).ok THEN Atoi(r.value).v ELSE defaultValue

FlagGetInt64(fl, defaultValue) ==
    LET r == GetFlagValue(fl) IN
    IF ~r.ok THEN defaultValue
    ELSE IF ParseInt(r.value).ok THEN ParseInt(r.value).v ELSE defaultValue

FlagGetBool(fl, defaultValue) ==
    LET r == GetFlagValue(fl) IN
    IF ~r.ok THEN defaultValue
    ELSE IF ParseBool(r.value).ok THEN ParseBool(r.value).v ELSE defaultValue

FlagGetDuration(fl, defaultValue) ==
    LET r == GetFlagValue(fl) IN
    IF ~r.ok THEN defaultValue
    ELSE IF ParseDuration(r.value).ok THEN ParseDuration(r.value).v ELSE defaultValue

\* os.Getenv: "" for an unset variable
Getenv(ev) == IF ev.set THEN ev.text ELSE ""

\* env.Has: os.LookupEnv's second result
Has(ev) == ev.set

EnvGet(ev, defaultValue) ==
    IF Getenv(ev) # "" THEN Getenv(ev) ELSE defaultValue

EnvGetTrimmed(ev, defaultValue) ==
    IF TrimSpace(Getenv(ev)) # "" THEN TrimSpace(Getenv(ev)) ELSE defaultValue

EnvGetInt(ev, defaultValue) ==
    IF Getenv(ev) # "" /\ Atoi(Getenv(ev)).ok THEN Atoi(Getenv(ev)).v ELSE defaultValue

EnvGetInt64(ev, defaultValue) ==
    IF Getenv(ev) # "" /\ ParseInt(Getenv(ev)).ok THEN ParseInt(Getenv(ev)).v ELSE defaultValue

EnvGetBool(ev, defaultValue) ==
    IF Getenv(ev) # "" /\ ParseBool(Getenv(ev)).ok THEN ParseBool(Getenv(ev)).v ELSE defaultValue

EnvGetDuration(ev, defaultValue) ==
    IF Getenv(ev) # "" /\ ParseDuration(Getenv(ev)).ok THEN ParseDuration(Getenv(ev)).v
    ELSE defaultValue

(* ========================= configutil resolvers ======================== *)

ResolveString(fl, ev, defaultValue, trimmed) ==
    IF HasFlag(fl) THEN FlagGetString(fl, defaultValue)
    ELSE IF Has(ev) /\ trimmed /\ EnvGetTrimmed(ev, "") # "" THEN EnvGetTrimmed(ev, "")
    ELSE IF Has(ev) /\ ~trimmed /\ EnvGet(ev, "") # "" THEN EnvGet(ev, "")
    ELSE defaultValue

\* ResolveInt treating a zero from the command line like a zero from the environment
ResolveInt_CLIZeroSkipped(fl, ev, defaultValue, allowZero) ==
    IF HasFlag(fl) /\ (allowZero \/ FlagGetInt(fl, defaultValue) # 0)
    THEN FlagGetInt(fl, defaultValue)
    ELSE IF Has(ev)
         THEN LET value == EnvGetInt(ev, defaultValue) IN
              IF ~allowZero /\ value = 0 THEN defaultValue ELSE value
    ELSE defaultValue

ResolveInt(fl, ev, defaultValue, allowZero) ==
    IF HasFlag(fl) THEN FlagGetInt(fl, defaultValue)
    ELSE IF Has(ev)
         THEN LET value == EnvGetInt(ev, defaultValue) IN
              IF ~allowZero /\ value = 0 THEN defaultValue ELSE value
    ELSE defaultValue

ResolveInt64(fl, ev, defaultValue, allowZero) ==
    IF HasFlag(fl) THEN FlagGetInt64(fl, defaultValue)
    ELSE IF Has(ev)
         THEN LET value == EnvGetInt64(ev, defaultValue) IN
              IF ~allowZero /\ value = 0 THEN defaultValue ELSE value
    ELSE defaultValue

ResolveBool(fl, ev, defaultValue) ==
    IF HasFlag(fl) THEN FlagGetBool(fl, defaultValue)
    ELSE IF Has(ev) THEN EnvGetBool(ev, defaultValue)
    ELSE defaultValue

ResolveDuration(fl, ev, defaultValue) ==
    IF HasFlag(fl) THEN FlagGetDuration(fl, defaultValue)
    ELSE IF Has(ev) THEN EnvGetDuration(ev, defaultValue)
    ELSE defaultValue

(* -------------------- validators the resolvers are given -------------- *)

\* len(s) of the texts that occur
StrLen(t) ==
    CASE t = "" -> 0
      [] t = "0" -> 1
      [] t \in {"42", "5s"} -> 2
      [] t = "abc" -> 3
      [] t \in {" 42 ", "true"} -> 4
      [] t \in {"65535", "65536"} -> 5
      [] OTHER -> 7

\* fmt's %d of the numbers that occur
Itoa(n) ==
    CASE n = 0 -> "0"
      [] n = 42 -> "42"
      [] n = 100 -> "100"
      [] n = 65535 -> "65535"
      [] OTHER -> "65536"

ErrInvalidPort == <<"port", "must", "be", "between", "1", "and", "65535">>

\* validator.ValidatePort
ValidatePort(port) ==
    IF port < 1 \/ port > 65535 THEN Errorf(ErrInvalidPort, <<Itoa(port)>>) ELSE NoErr

\* the validators of the package's tests and validator.ValidatePort, by name
ValidateString(validator, value) ==
    IF validator = "tooShort"
    THEN IF StrLen(value) < 3 THEN Errorf(<<"value", "too", "short">>, <<>>) ELSE NoErr
    ELSE NoErr

ValidateInt(validator, value) ==
    IF validator = "ValidatePort" THEN ValidatePort(value)
    ELSE IF value < 1 \/ value > 100
         THEN Errorf(<<"value", "must", "be", "between", "1", "and", "100">>, <<>>)
         ELSE NoErr

\* the test's func(s string) bool
longerThan3(value) == StrLen(value) > 3

\* a (value, error) pair
Pair(v, err) == [v |-> v, err |-> err]

\* ResolveStringWithValidator trying the environment after a rejected flag value
ResolveStringWithValidator_EnvAfterFlag(fl, ev, defaultValue, trimmed) ==
    LET value == IF trimmed THEN EnvGetTrimmed(ev, "") ELSE EnvGet(ev, "") IN
    IF HasFlag(fl) /\ longerThan3(FlagGetString(fl, defaultValue))
    THEN FlagGetString(fl, defaultValue)
    ELSE IF Has(ev) /\ value # "" /\ longerThan3(value) THEN value
    ELSE defaultValue

ResolveStringWithValidator(fl, ev, defaultValue, trimmed) ==
    IF HasFlag(fl)
    THEN IF longerThan3(FlagGetString(fl, defaultValue))
         THEN FlagGetString(fl, defaultValue)
         ELSE defaultValue
    ELSE LET value == IF trimmed THEN EnvGetTrimmed(ev, "") ELSE EnvGet(ev, "") IN
         IF Has(ev) /\ value # "" /\ longerThan3(value) THEN value
         ELSE defaultValue

\* ResolveStringWithValidation handing back the flag's value without asking the validator
ResolveStringWithValidation_FlagUnchecked(fl, ev, defaultValue, trimmed, validator) ==
    LET value == IF trimmed THEN EnvGetTrimmed(ev, "") ELSE EnvGet(ev, "") IN
    IF HasFlag(fl) THEN Pair(FlagGetString(fl, defaultValue), NoErr)
    ELSE IF Has(ev) /\ value # "" /\ ValidateString(validator, value) = NoErr
    THEN Pair(value, NoErr)
    ELSE Pair(defaultValue, ValidateString(validator, defaultValue))

ResolveStringWithValidation(fl, ev, defaultValue, trimmed, validator) ==
    LET value == IF trimmed THEN EnvGetTrimmed(ev, "") ELSE EnvGet(ev, "") IN
    IF HasFlag(fl) /\ ValidateString(validator, FlagGetString(fl, defaultValue)) = NoErr
    THEN Pair(FlagGetString(fl, defaultValue), NoErr)
    ELSE IF Has(ev) /\ value # "" /\ ValidateString(validator, value) = NoErr
    THEN Pair(value, NoErr)
    ELSE IF ValidateString(validator, defaultValue) = NoErr THEN Pair(defaultValue, NoErr)
    ELSE Pair(defaultValue, ValidateString(validator, defaultValue))

ResolveIntWithValidation(fl, ev, defaultValue, allowZero, validator) ==
    LET value == EnvGetInt(ev, defaultValue) IN
    IF HasFlag(fl) /\ ValidateInt(validator, FlagGetInt(fl, defaultValue)) = NoErr
    THEN Pair(FlagGetInt(fl, defaultValue), NoErr)
    ELSE IF Has(ev) /\ ~(~allowZero /\ value = 0) /\ ValidateInt(validator, value) = NoErr
    THEN Pair(value, NoErr)
    ELSE IF ValidateInt(validator, defaultValue) = NoErr THEN Pair(defaultValue, NoErr)
    ELSE Pair(defaultValue, ValidateInt(validator, defaultValue))

ResolvePort(fl, ev, defaultValue) ==
    ResolveIntWithValidation(fl, ev, defaultValue, FALSE, "ValidatePort")

(* ===================== the resolvers as a process ====================== *)

\* the defaultValue arguments tried
StringDefaults == {"default", ""}
IntDefaults == {0, 100}
DurationDefaults == {0, 30}

\* a value of one of the result types: string, int / int64 / time.Duration, bool
StringValue(x) == [s |-> x, n |-> 0, b |-> FALSE]
IntValue(x) == [s |-> "", n |-> x, b |-> FALSE]
BoolValue(x) == [s |-> "", n |-> 0, b |-> x]

NoCall == [fn |-> "none", defaultValue |-> IntValue(0), option |-> FALSE, validator |-> "none"]
Call(fn, defaultValue, option) ==
    [fn |-> fn, defaultValue |-> defaultValue, option |-> option, validator |-> "none"]
CallWith(fn, defaultValue, option, validator) ==
    [fn |-> fn, defaultValue |-> defaultValue, option |-> option, validator |-> validator]

ResolveIdle ==
    /\ flags = NotSet
    /\ environ = NotSet
    /\ rpc = "idle"
    /\ rcall = NoCall
    /\ rres = IntValue(0)
    /\ rerr = NoErr

\* fs.Parse(args) on a fresh FlagSet: the flag is given with some text, or is not given
FlagParse ==
    /\ rpc = "idle"
    /\ \E e \in Entries \ {flags} : flags' = e
    /\ UNCHANGED <<environ, rpc, rcall, rres, rerr>>
    /\ UNCHANGED nonCfgVars

\* os.Setenv(key, text)
Setenv ==
    /\ rpc = "idle"
    /\ \E t \in Texts : environ' = SetTo(t)
    /\ environ' # environ
    /\ UNCHANGED <<flags, rpc, rcall, rres, rerr>>
    /\ UNCHANGED nonCfgVars

\* os.Unsetenv(key)
Unsetenv ==
    /\ rpc = "idle"
    /\ environ.set
    /\ environ' = NotSet
    /\ UNCHANGED <<flags, rpc, rcall, rres, rerr>>
    /\ UNCHANGED nonCfgVars

ResolveReturnedWith(call, v, err) ==
    /\ rpc' = "done"
    /\ rcall' = call
    /\ rres' = v
    /\ rerr' = err
    /\ UNCHANGED <<flags, environ>>
    /\ UNCHANGED nonCfgVars

ResolveReturned(call, v) ==
    /\ rpc' = "done"
    /\ rcall' = call
    /\ rres' = v
    /\ rerr' = NoErr
    /\ UNCHANGED <<flags, environ>>
    /\ UNCHANGED nonCfgVars

CallResolveString ==
    /\ rpc = "idle"
    /\ \E d \in StringDefaults, trimmed \in BOOLEAN :
        ResolveReturned(Call("ResolveString", StringValue(d), trimmed),
                        StringValue(ResolveString(flags, environ, d, trimmed)))

CallResolveInt ==
    /\ rpc = "idle"
    /\ \E d \in IntDefaults, allowZero \in BOOLEAN :
        ResolveReturned(Call("ResolveInt", IntValue(d), allowZero),
                        IntValue(ResolveInt(flags, environ, d, allowZero)))

CallResolveInt64 ==
    /\ rpc = "idle"
    /\ \E d \in IntDefaults, allowZero \in BOOLEAN :
        ResolveReturned(Call("ResolveInt64", IntValue(d), allowZero),
                        IntValue(ResolveInt64(flags, environ, d, allowZero)))

CallResolveBool ==
    /\ rpc = "idle"
    /\ \E d \in BOOLEAN :
        ResolveReturned(Call("ResolveBool", BoolValue(d), FALSE),
                        BoolValue(ResolveBool(flags, environ, d)))

CallResolveDuration ==
    /\ rpc = "idle"
    /\ \E d \in DurationDefaults :
        ResolveReturned(Call("ResolveDuration", IntValue(d), FALSE),
                        IntValue(ResolveDuration(flags, environ, d)))

\* the port defaults tried: below the range, inside it, above it
PortDefaults == {0, 100, 65536}

CallResolveStringWithValidator ==
    /\ rpc = "idle"
    /\ \E d \in StringDefaults, trimmed \in BOOLEAN :
        ResolveReturned(CallWith("ResolveStringWithValidator", StringValue(d), trimmed,
                                 "longerThan3"),
                        StringValue(ResolveStringWithValidator(flags, environ, d, trimmed)))

CallResolveStringWithValidation ==
    /\ rpc = "idle"
    /\ \E d \in StringDefaults, trimmed \in BOOLEAN :
        LET r == ResolveStringWithValidation(flags, environ, d, trimmed, "tooShort") IN
        ResolveReturnedWith(CallWith("ResolveStringWithValidation", StringValue(d), trimmed,
                                     "tooShort"),
                            StringValue(r.v), r.err)

CallResolveIntWithValidation ==
    /\ rpc = "idle"
    /\ \E d \in PortDefaults, allowZero \in BOOLEAN :
        LET r == ResolveIntWithValidation(flags, environ, d, allowZero, "range1to100") IN
        ResolveReturnedWith(CallWith("ResolveIntWithValidation", IntValue(d), allowZero,
                                     "range1to100"),
                            IntValue(r.v), r.err)

CallResolvePort ==
    /\ rpc = "idle"
    /\ \E d \in PortDefaults :
        LET r == ResolvePort(flags, environ, d) IN
        ResolveReturnedWith(CallWith("ResolvePort", IntValue(d), FALSE, "ValidatePort"),
                            IntValue(r.v), r.err)

\* the caller has the value; the next call may follow
ResolveReturn ==
    /\ rpc = "done"
    /\ rpc' = "idle"
    /\ rcall' = NoCall
    /\ rres' = IntValue(0)
    /\ rerr' = NoErr
    /\ UNCHANGED <<flags, environ>>
    /\ UNCHANGED nonCfgVars

(* ========================= testutil.EnvManager ========================= *)

\* the keys a test hands to the manager: two well-formed ones, the empty
\* key and the one-byte key "\x00" (written NulKey)
NulKey == "<NUL>"
ValidKeys == {"K1", "K2"}
InvalidKeys == {"", NulKey}
Keys == ValidKeys \cup InvalidKeys

\* the values written
Values == {"", "v", "w"}

\* syscall.Setenv's EINVAL for an empty key and for a key holding '=' or NUL,
\* as os.Setenv wraps it
ErrSetenv == Errorf(<<"setenv", "invalid", "argument">>, <<>>)

\* os.Getenv(key) in environment e: "" for a variable that is not there
osGetenv(e, key) == IF key \in DOMAIN e /\ e[key].set THEN e[key].text ELSE ""

\* os.Setenv(key, value): the new environment and the error
osSetenv(e, key, value) ==
    IF key \in InvalidKeys THEN [env |-> e, err |-> ErrSetenv]
    ELSE [env |-> [e EXCEPT ![key] = SetTo(value)], err |-> NoErr]

\* os.Unsetenv(key): removes the variable if it is there, returns nil (unix)
osUnsetenv(e, key) ==
    IF key \in DOMAIN e THEN [env |-> [e EXCEPT ![key] = NotSet], err |-> NoErr]
    ELSE [env |-> e, err |-> NoErr]

\* the save that opens Set and Unset: m.original[key] = os.Getenv(key), once
saveOriginal(orig, e, key) ==
    IF orig[key].saved THEN orig
    ELSE [orig EXCEPT ![key] = [saved |-> TRUE, value |-> osGetenv(e, key)]]

\* the manager's state with the error of the method that ran on it
Managed(e, orig, err) == [env |-> e, original |-> orig, err |-> err]

\* EnvManager.Set
EnvManagerSet(st, key, value) ==
    LET r == osSetenv(st.env, key, value) IN
    Managed(r.env, saveOriginal(st.original, st.env, key), r.err)

\* EnvManager.Unset
EnvManagerUnset(st, key) ==
    LET r == osUnsetenv(st.env, key) IN
    Managed(r.env, saveOriginal(st.original, st.env, key), r.err)

\* EnvManager.SetMultiple on the map's entries in the order the range yields them
RECURSIVE EnvManagerSetMultiple(_, _)
EnvManagerSetMultiple(st, entries) ==
    IF entries = <<>> THEN Managed(st.env, st.original, NoErr)
    ELSE LET r == EnvManagerSet(st, entries[1].key, entries[1].value) IN
         IF r.err # NoErr THEN r
         ELSE EnvManagerSetMultiple(r, Tail(entries))

\* EnvManager.Clear: Unset of every saved key; no Unset fails
EnvManagerClear(st) ==
    Managed([k \in DOMAIN st.env |->
                IF st.original[k].saved THEN NotSet ELSE st.env[k]],
            st.original, NoErr)

\* EnvManager.Restore: a saved "" unsets the variable, any other saved text is set
EnvManagerRestore(st) ==
    Managed([k \in DOMAIN st.env |->
                IF ~st.original[k].saved THEN st.env[k]
                ELSE IF st.original[k].value = "" THEN NotSet
                ELSE SetTo(st.original[k].value)],
            st.original, NoErr)

(* ------------------------ the manager in a test ------------------------ *)

NoOriginal == [k \in Keys |-> [saved |-> FALSE, value |-> ""]]

\* the maps handed to SetMultiple, as the order their range takes
MapEntries ==
    {<<>>}
    \cup {<<[key |-> k, value |-> v]>> : k \in Keys, v \in Values}
    \cup {<<[key |-> p[1], value |-> "v"], [key |-> p[2], value |-> "w"]>> :
            p \in {q \in Keys \X Keys : q[1] # q[2]}}

EnvManagerIdle ==
    /\ menv = [k \in ValidKeys |-> NotSet]
    /\ original = NoOriginal
    /\ mpc = "setup"
    /\ mlast = "none"
    /\ margs = {}
    /\ merr = NoErr
    /\ msnap = [k \in ValidKeys |-> NotSet]

\* the test prepares the environment with os.Setenv / os.Unsetenv
PrepareEnv ==
    /\ mpc = "setup"
    /\ \E k \in ValidKeys, e \in {NotSet} \cup {SetTo(v) : v \in Values} :
        /\ menv[k] # e
        /\ menv' = [menv EXCEPT ![k] = e]
    /\ UNCHANGED <<original, mpc, mlast, margs, merr, msnap>>
    /\ UNCHANGED nonMgrVars

NewEnvManager ==
    /\ mpc = "setup"
    /\ mpc' = "managed"
    /\ original' = NoOriginal
    /\ msnap' = menv
    /\ UNCHANGED <<menv, mlast, margs, merr>>
    /\ UNCHANGED nonMgrVars

\* a method of the manager ran on the given keys and left state st
ManagerRan(method, keys, st) ==
    /\ menv' = st.env
    /\ original' = st.original
    /\ merr' = st.err
    /\ mlast' = method
    /\ margs' = keys
    /\ UNCHANGED <<mpc, msnap>>
    /\ UNCHANGED nonMgrVars

CallSet ==
    /\ mpc = "managed"
    /\ \E k \in Keys, v \in Values :
        ManagerRan("Set", {k}, EnvManagerSet(Managed(menv, original, NoErr), k, v))

CallUnset ==
    /\ mpc = "managed"
    /\ \E k \in Keys :
        ManagerRan("Unset", {k}, EnvManagerUnset(Managed(menv, original, NoErr), k))

CallSetMultiple ==
    /\ mpc = "managed"
    /\ \E m \in MapEntries :
        ManagerRan("SetMultiple", {m[i].key : i \in 1..Len(m)},
                   EnvManagerSetMultiple(Managed(menv, original, NoErr), m))

CallClear ==
    /\ mpc = "managed"
    /\ ManagerRan("Clear", {}, EnvManagerClear(Managed(menv, original, NoErr)))

CallRestore ==
    /\ mpc = "managed"
    /\ ManagerRan("Restore", {}, EnvManagerRestore(Managed(menv, original, NoErr)))

\* Cleanup: Restore with its error dropped
CallCleanup ==
    /\ mpc = "managed"
    /\ ManagerRan("Cleanup", {},
                  LET r == EnvManagerRestore(Managed(menv, original, NoErr)) IN
                  Managed(r.env, r.original, NoErr))

(* ==================== flagutil.ReadPasswordFromFile ==================== *)

\* what a path of the disk holds: nothing, a regular file, a symbolic link
Missing == [kind |-> "none", data |-> "", to |-> <<>>]
File(data) == [kind |-> "file", data |-> data, to |-> <<>>]
Link(to) == [kind |-> "link", data |-> "", to |-> to]

\* the password file /a/a and another file /aa
PasswordPath == <<"/", "a", "/", "a">>
OtherPath == <<"/", "a", "a">>
DiskPaths == {PasswordPath, OtherPath}
FileData == {" 42 ", "abc"}

ErrNotExist == Errorf(<<"open", "%s:", "no", "such", "file", "or", "directory">>, <<>>)
ErrLoop == Errorf(<<"open", "%s:", "too", "many", "levels", "of", "symbolic", "links">>, <<>>)

\* os.ReadFile(name) on disk d: open follows symbolic links
RECURSIVE ReadFile(_, _, _)
ReadFile(d, name, followed) ==
    IF name \notin DOMAIN d \/ d[name].kind = "none" THEN [data |-> "", err |-> ErrNotExist]
    ELSE IF d[name].kind = "file" THEN [data |-> d[name].data, err |-> NoErr]
    ELSE IF d[name].to \in followed \cup {name} THEN [data |-> "", err |-> ErrLoop]
    ELSE ReadFile(d, d[name].to, followed \cup {name})

\* the arguments tried: "", a, /a/a, /aa, /a/.. ; the working directory is /a
PasswordArgs ==
    {<<>>, <<"a">>, PasswordPath, OtherPath, <<"/", "a", "/", ".", ".">>}
PasswordWorkDir == [ok |-> TRUE, path |-> <<"/", "a">>]

PasswordResult(password, err) == [password |-> password, err |-> err]

PasswordIdle ==
    /\ pwpc = "idle"
    /\ pwArg = <<>>
    /\ safePath = <<>>
    /\ pwRes = PasswordResult("", NoErr)
    /\ pwReads = 0
    /\ disk = [q \in DiskPaths |-> IF q = PasswordPath THEN File(" 42 ") ELSE File("abc")]
    /\ seenNode = Missing

PasswordCall ==
    /\ pwpc = "idle"
    /\ \E a \in PasswordArgs : pwArg' = a
    /\ pwpc' = "validate"
    /\ UNCHANGED <<safePath, pwRes, pwReads, disk, seenNode>>
    /\ UNCHANGED nonPwVars

\* validator.ValidatePath(filePath, &PathOptions{CheckTraversal: true})
PasswordValidate ==
    /\ pwpc = "validate"
    /\ LET r == ValidatePath(pwArg, PathOptions(FALSE, <<>>, TRUE), PasswordWorkDir) IN
       IF r.err # NoErr
       THEN /\ pwpc' = "done"
            /\ pwRes' = PasswordResult("", r.err)
            /\ UNCHANGED <<safePath, seenNode>>
       ELSE /\ pwpc' = "read"
            /\ safePath' = r.path
            /\ seenNode' = IF r.path \in DOMAIN disk THEN disk[r.path] ELSE Missing
            /\ UNCHANGED pwRes
    /\ UNCHANGED <<pwArg, pwReads, disk>>
    /\ UNCHANGED nonPwVars

\* PasswordRead returning the file that was at the path when it was validated
PasswordRead_ValidatedFile ==
    /\ pwpc = "read"
    /\ pwReads' = pwReads + 1
    /\ pwRes' = IF seenNode.kind = "file"
                THEN PasswordResult(TrimSpace(seenNode.data), NoErr)
                ELSE LET r == ReadFile(disk, safePath, {}) IN
                     IF r.err # NoErr THEN PasswordResult("", r.err)
                     ELSE PasswordResult(TrimSpace(r.data), NoErr)
    /\ pwpc' = "done"
    /\ UNCHANGED <<pwArg, safePath, disk, seenNode>>
    /\ UNCHANGED nonPwVars

\* os.ReadFile(safePath) and strings.TrimSpace
PasswordRead ==
    /\ pwpc = "read"
    /\ pwReads' = pwReads + 1
    /\ LET r == ReadFile(disk, safePath, {}) IN
       pwRes' = IF r.err # NoErr THEN PasswordResult("", r.err)
                ELSE PasswordResult(TrimSpace(r.data), NoErr)
    /\ pwpc' = "done"
    /\ UNCHANGED <<pwArg, safePath, disk, seenNode>>
    /\ UNCHANGED nonPwVars

PasswordReturn ==
    /\ pwpc = "done"
    /\ pwpc' = "idle"
    /\ pwArg' = <<>>
    /\ safePath' = <<>>
    /\ pwRes' = PasswordResult("", NoErr)
    /\ pwReads' = 0
    /\ seenNode' = Missing
    /\ UNCHANGED disk
    /\ UNCHANGED nonPwVars

\* another actor replaces what is at a path by a symbolic link to the other path
ActorSymlink ==
    /\ pwpc # "done"
    /\ \E q \in DiskPaths, t \in DiskPaths :
        /\ t # q
        /\ disk[q] # Link(t)
        /\ disk' = [disk EXCEPT ![q] = Link(t)]
    /\ UNCHANGED <<pwpc, pwArg, safePath, pwRes, pwReads, seenNode>>
    /\ UNCHANGED nonPwVars

\* another actor writes a regular file at a path, or removes what is there
ActorWrite ==
    /\ pwpc # "done"
    /\ \E q \in DiskPaths, n \in {Missing} \cup {File(d) : d \in FileData} :
        /\ disk[q] # n
        /\ disk' = [disk EXCEPT ![q] = n]
    /\ UNCHANGED <<pwpc, pwArg, safePath, pwRes, pwReads, seenNode>>
    /\ UNCHANGED nonPwVars

(* ======================= isPrivateIP called directly =================== *)

\* the addresses tried: the hosts of the URL inputs and the addresses just
\* outside each range
ClassifiedAddrs ==
    V4Addrs \cup V6Addrs
    \cup {<<172, 32, 0, 0>>, <<192, 169, 0, 0>>, <<100, 128, 0, 0>>, <<198, 20, 0, 0>>,
          <<172, 31, 255, 255>>, <<100, 127, 255, 255>>, <<198, 19, 255, 255>>,
          <<224, 0, 0, 255>>, <<224, 0, 1, 0>>}

ClassifyIdle ==
    /\ ipc = "idle"
    /\ ipArg = NilIP
    /\ ipGot = FALSE

\* got := isPrivateIP(ip)
ClassifyCall ==
    /\ ipc = "idle"
    /\ \E ip \in ClassifiedAddrs :
        /\ ipArg' = ip
        /\ ipGot' = isPrivateIP(ip)
    /\ ipc' = "done"
    /\ UNCHANGED nonIPVars

ClassifyReturn ==
    /\ ipc = "done"
    /\ ipc' = "idle"
    /\ ipArg' = NilIP
    /\ ipGot' = FALSE
    /\ UNCHANGED nonIPVars

(* ================== concurrent calls of the validators ================= *)

\* ValidateURL after normalizeURLOptions, given what the resolver answers
RECURSIVE checkAddrs(_, _, _)
checkAddrs(ipAddrs, i, n) ==
    IF i > Len(ipAddrs) THEN NoErr
    ELSE IF checkIPAllowed(ipAddrs[i], n) # NoErr THEN checkIPAllowed(ipAddrs[i], n)
    ELSE checkAddrs(ipAddrs, i + 1, n)

validateNormalized(urlStr, n, answer) ==
    LET parsed == ParseRequestURI(urlStr) IN
    IF ~parsed.ok THEN ErrURLFormat
    ELSE IF parsed.User THEN ErrUserInfo
    ELSE IF Len(n.AllowedSchemes.elems) > 0 /\ ~schemeAllowed(parsed.Scheme, n.AllowedSchemes.elems)
         THEN ErrScheme(parsed.Scheme, n.AllowedSchemes.elems)
    ELSE IF parsed.Host.kind = "none" THEN ErrNoHost
    ELSE IF ~n.AllowLocalhost /\ IsLocalhostText(parsed.Host) THEN ErrLocalhost
    ELSE IF ParseIP(parsed.Host) # NilIP THEN checkIPAllowed(ParseIP(parsed.Host), n)
    ELSE IF n.ResolveHostTimeout > 0
         THEN IF ~answer.ok THEN ErrResolve
              ELSE IF Len(answer.addrs) = 0 THEN ErrNoAddrs
              ELSE checkAddrs(answer.addrs, 1, n)
    ELSE NoErr

\* ValidateURL as a function of its arguments and the resolver's answer
ValidateURL(urlStr, opts, answer) ==
    IF urlStr.shape = "empty" THEN ErrEmptyURL
    ELSE validateNormalized(urlStr, normalizeURLOptions(opts), answer)

Goroutines == 1..MaxCallers

\* the inputs the concurrent callers use
ConcURLs ==
    {EmptyURL,
     FullURL("http", FALSE, NameHost("example.com")),
     FullURL("ftp", FALSE, NameHost("example.com")),
     FullURL("http", FALSE, V4Host(<<10, 0, 0, 1>>))}

ConcURLOptions ==
    {NilURLOptions,
     URLOptions(NilSlice, FALSE, TRUE, 0),
     URLOptions(Slice(<<"ftp">>), TRUE, FALSE, DefaultResolveSeconds)}

ConcAnswers ==
    {[ok |-> FALSE, addrs |-> <<>>],
     [ok |-> TRUE, addrs |-> <<(<<8, 8, 8, 8>>)>>],
     [ok |-> TRUE, addrs |-> <<(<<10, 0, 0, 1>>)>>]}

ConcPaths == {<<>>, <<"/", "a">>, <<"a", "/", ".", ".">>, <<"/", "a", "a">>}

ConcPathOptions ==
    {NilPathOptions,
     PathOptions(TRUE, <<>>, FALSE),
     PathOptions(FALSE, <<(<<"/", "a">>)>>, TRUE)}

ConcWorkDir == [ok |-> TRUE, path |-> <<"/", "a">>]

NoGoCall == [kind |-> "none", urlStr |-> EmptyURL, path |-> <<>>]
NoLocals == [n |-> defaultURLOptions, absPath |-> <<>>]

ConcIdle ==
    /\ heapOpts = [url |-> NilURLOptions, path |-> NilPathOptions]
    /\ allocOpts = heapOpts
    /\ gpc = [g \in Goroutines |-> "idle"]
    /\ gcall = [g \in Goroutines |-> NoGoCall]
    /\ gloc = [g \in Goroutines |-> NoLocals]
    /\ gans = [g \in Goroutines |-> NoAnswer]
    /\ gres = [g \in Goroutines |-> PathResult(<<>>, NoErr)]

\* the program builds the options values that its goroutines will pass
NewOptions ==
    /\ \A g \in Goroutines : gpc[g] = "idle"
    /\ \E uo \in ConcURLOptions, po \in ConcPathOptions :
        /\ heapOpts' = [url |-> uo, path |-> po]
        /\ heapOpts' # heapOpts
    /\ allocOpts' = heapOpts'
    /\ UNCHANGED <<gpc, gcall, gloc, gans, gres>>
    /\ UNCHANGED nonConcVars

GoDone(g, path, err) ==
    /\ gpc' = [gpc EXCEPT ![g] = "done"]
    /\ gres' = [gres EXCEPT ![g] = PathResult(path, err)]

\* goroutine g calls ValidateURL(urlStr, opts) with opts pointing to heapOpts.url
GoCallURL(g) ==
    /\ gpc[g] = "idle"
    /\ \E s \in ConcURLs : gcall' = [gcall EXCEPT ![g] = [kind |-> "url", urlStr |-> s, path |-> <<>>]]
    /\ gpc' = [gpc EXCEPT ![g] = "normalize"]
    /\ UNCHANGED <<heapOpts, allocOpts, gloc, gans, gres>>
    /\ UNCHANGED nonConcVars

\* GoNormalize storing the merged options back through the caller's pointer
GoNormalize_InPlace(g) ==
    /\ gpc[g] = "normalize"
    /\ IF gcall[g].urlStr.shape = "empty"
       THEN GoDone(g, <<>>, ErrEmptyURL) /\ UNCHANGED <<gloc, heapOpts>>
       ELSE /\ gloc' = [gloc EXCEPT ![g].n = normalizeURLOptions(heapOpts.url)]
            /\ heapOpts' = IF heapOpts.url.isNil THEN heapOpts
                           ELSE [heapOpts EXCEPT !.url = normalizeURLOptions(heapOpts.url)]
            /\ gpc' = [gpc EXCEPT ![g] = "gates"]
            /\ UNCHANGED gres
    /\ UNCHANGED <<allocOpts, gcall, gans>>
    /\ UNCHANGED nonConcVars

\* the empty check, then normalizeURLOptions reads *opts into a fresh value
GoNormalize(g) ==
    /\ gpc[g] = "normalize"
    /\ IF gcall[g].urlStr.shape = "empty"
       THEN GoDone(g, <<>>, ErrEmptyURL) /\ UNCHANGED gloc
       ELSE /\ gloc' = [gloc EXCEPT ![g].n = normalizeURLOptions(heapOpts.url)]
            /\ gpc' = [gpc EXCEPT ![g] = "gates"]
            /\ UNCHANGED gres
    /\ UNCHANGED <<heapOpts, allocOpts, gcall, gans>>
    /\ UNCHANGED nonConcVars

\* the gates of ValidateURL work on the goroutine's own normalized options
GoGates(g) ==
    /\ gpc[g] = "gates"
    /\ \E answer \in ConcAnswers :
        /\ gans' = [gans EXCEPT ![g] = answer]
        /\ GoDone(g, <<>>, validateNormalized(gcall[g].urlStr, gloc[g].n, answer))
    /\ UNCHANGED <<heapOpts, allocOpts, gcall, gloc>>
    /\ UNCHANGED nonConcVars

\* goroutine g calls ValidatePath(path, opts) with opts pointing to heapOpts.path
GoCallPath(g) ==
    /\ gpc[g] = "idle"
    /\ \E p \in ConcPaths : gcall' = [gcall EXCEPT ![g] = [kind |-> "path", urlStr |-> EmptyURL, path |-> p]]
    /\ gpc' = [gpc EXCEPT ![g] = "raw"]
    /\ UNCHANGED <<heapOpts, allocOpts, gloc, gans, gres>>
    /\ UNCHANGED nonConcVars

\* what the call's opts pointer leads to: the defaults replace a nil pointer
optsNow == IF heapOpts.path.isNil THEN defaultPathOptions ELSE heapOpts.path

\* the empty check and the raw traversal check
GoPathRaw(g) ==
    /\ gpc[g] = "raw"
    /\ IF gcall[g].path = <<>> THEN GoDone(g, <<>>, ErrPathEmpty)
       ELSE IF optsNow.CheckTraversal /\ rawTraversal(gcall[g].path)
            THEN GoDone(g, <<>>, ErrTraversal)
       ELSE gpc' = [gpc EXCEPT ![g] = "abs"] /\ UNCHANGED gres
    /\ UNCHANGED <<heapOpts, allocOpts, gcall, gloc, gans>>
    /\ UNCHANGED nonConcVars

\* filepath.Abs and the check of the cleaned path
GoPathAbs(g) ==
    /\ gpc[g] = "abs"
    /\ LET abs == Abs(gcall[g].path, ConcWorkDir) IN
       IF ~abs.ok THEN GoDone(g, <<>>, ErrPathParse) /\ UNCHANGED gloc
       ELSE IF optsNow.CheckTraversal /\ containsTraversalSegment(Clean(abs.path))
            THEN GoDone(g, <<>>, ErrTraversal) /\ UNCHANGED gloc
       ELSE /\ gloc' = [gloc EXCEPT ![g].absPath =
                            IF optsNow.CheckTraversal THEN Clean(abs.path) ELSE abs.path]
            /\ gpc' = [gpc EXCEPT ![g] = "allow"]
            /\ UNCHANGED gres
    /\ UNCHANGED <<heapOpts, allocOpts, gcall, gans>>
    /\ UNCHANGED nonConcVars

\* the loop over opts.AllowedDirs and the return
GoPathAllow(g) ==
    /\ gpc[g] = "allow"
    /\ IF Len(optsNow.AllowedDirs) > 0
          /\ ~allowedLoop(gloc[g].absPath, optsNow.AllowedDirs, 1, ConcWorkDir)
       THEN GoDone(g, <<>>, ErrNotAllowed)
       ELSE GoDone(g, gloc[g].absPath, NoErr)
    /\ UNCHANGED <<heapOpts, allocOpts, gcall, gloc, gans>>
    /\ UNCHANGED nonConcVars

\* the goroutine has its result and is free for the next call
GoReturn(g) ==
    /\ gpc[g] = "done"
    /\ gpc' = [gpc EXCEPT ![g] = "idle"]
    /\ gcall' = [gcall EXCEPT ![g] = NoGoCall]
    /\ gloc' = [gloc EXCEPT ![g] = NoLocals]
    /\ gans' = [gans EXCEPT ![g] = NoAnswer]
    /\ gres' = [gres EXCEPT ![g] = PathResult(<<>>, NoErr)]
    /\ UNCHANGED <<heapOpts, allocOpts>>
    /\ UNCHANGED nonConcVars

(* ============================ specifications =========================== *)

Init == URLIdle /\ PathIdle /\ fs = {} /\ ResolveIdle /\ ConcIdle /\ EnvManagerIdle
        /\ PasswordIdle /\ ClassifyIdle

NextURL ==
    \/ URLCall
    \/ URLParse
    \/ URLScheme
    \/ URLHost
    \/ URLLiteralIP
    \/ URLSkipResolve
    \/ URLLookup
    \/ URLCheckAddr
    \/ URLReturn

SpecURL == Init /\ [][NextURL]_vars

NextPath ==
    \/ PathCall
    \/ PathValidate
    \/ PathReturn

SpecPath == Init /\ [][NextPath]_vars

\* ValidatePath, and ValidatePath on what it returned
NextPathAgain ==
    \/ PathCall
    \/ PathCallDotted
    \/ PathValidate
    \/ PathAgain
    \/ PathReturn

SpecPathAgain == Init /\ [][NextPathAgain]_vars

\* ValidatePath on a filesystem in which another actor creates symbolic links
NextPathFS ==
    \/ PathCall
    \/ PathValidate
    \/ PathReturn
    \/ FSLink
    \/ FSUnlink

SpecPathFS == Init /\ [][NextPathFS]_vars

\* one caller that invokes the two validators one after the other
SeqURLCall == ppc = "idle" /\ URLCall

SeqPathCall == upc = "idle" /\ PathCall

NextValidators ==
    \/ SeqURLCall
    \/ URLParse
    \/ URLScheme
    \/ URLHost
    \/ URLLiteralIP
    \/ URLSkipResolve
    \/ URLLookup
    \/ URLCheckAddr
    \/ URLReturn
    \/ SeqPathCall
    \/ PathValidate
    \/ PathReturn

SpecValidators == Init /\ [][NextValidators]_vars

\* a program that parses its flags, changes its environment and resolves values
NextResolve ==
    \/ FlagParse
    \/ Setenv
    \/ Unsetenv
    \/ CallResolveString
    \/ CallResolveInt
    \/ CallResolveInt64
    \/ CallResolveBool
    \/ CallResolveDuration
    \/ CallResolveStringWithValidator
    \/ CallResolveStringWithValidation
    \/ CallResolveIntWithValidation
    \/ CallResolvePort
    \/ ResolveReturn

SpecResolve == Init /\ [][NextResolve]_vars

\* goroutines that share the caller's options values
NextConcurrent ==
    \/ NewOptions
    \/ \E g \in Goroutines : GoCallURL(g)
    \/ \E g \in Goroutines : GoNormalize(g)
    \/ \E g \in Goroutines : GoGates(g)
    \/ \E g \in Goroutines : GoCallPath(g)
    \/ \E g \in Goroutines : GoPathRaw(g)
    \/ \E g \in Goroutines : GoPathAbs(g)
    \/ \E g \in Goroutines : GoPathAllow(g)
    \/ \E g \in Goroutines : GoReturn(g)

SpecConcurrent == Init /\ [][NextConcurrent]_vars

\* a test that prepares the environment, creates a manager and uses it
NextEnvManager ==
    \/ PrepareEnv
    \/ NewEnvManager
    \/ CallSet
    \/ CallUnset
    \/ CallSetMultiple
    \/ CallClear
    \/ CallRestore
    \/ CallCleanup

SpecEnvManager == Init /\ [][NextEnvManager]_vars

\* ReadPasswordFromFile beside an actor that rewrites the disk
NextPassword ==
    \/ PasswordCall
    \/ PasswordValidate
    \/ PasswordRead
    \/ PasswordReturn
    \/ ActorSymlink
    \/ ActorWrite

SpecPassword == Init /\ [][NextPassword]_vars

\* isPrivateIP applied to one address after the other
NextClassify ==
    \/ ClassifyCall
    \/ ClassifyReturn

SpecClassify == Init /\ [][NextClassify]_vars

(* ===================== the address plan of the spec ==================== *)

\* the IPv4 address an IP stands for (4-byte or IPv4-mapped), else <<>>
V4Of(ip) ==
    IF Len(ip) = 4 THEN ip
    ELSE IF Len(ip) = 16 /\ SubSeq(ip, 1, 12) = Zeros(10) \o <<255, 255>> THEN SubSeq(ip, 13, 16)
    ELSE <<>>

\* the two 16-bit halves of an IPv4 address, the first 16 bits of an IPv6 one
Hi(b) == b[1] * 256 + b[2]
Lo(b) == b[3] * 256 + b[4]

\* 0.0.0.0/8, 224.0.0.0/4, 255.255.255.255; :: and ff00::/8
PlanAlwaysBlocked(ip) ==
    IF V4Of(ip) # <<>>
    THEN LET b == V4Of(ip) IN
         \/ Hi(b) \in 0..255
         \/ Hi(b) \in 57344..61439
         \/ (Hi(b) = 65535 /\ Lo(b) = 65535)
    ELSE ip = Zeros(16) \/ Hi(ip) \in 65280..65535

\* 127.0.0.0/8 and ::1
PlanLoopback(ip) ==
    IF V4Of(ip) # <<>> THEN Hi(V4Of(ip)) \in 32512..32767
    ELSE ip = Zeros(15) \o <<1>>

\* 224.0.0.0/24 and ffx2::/16
PlanLinkLocalMulticast(ip) ==
    IF V4Of(ip) # <<>> THEN Hi(V4Of(ip)) = 57344 /\ V4Of(ip)[3] = 0
    ELSE Hi(ip) \in 65280..65535 /\ Hi(ip) % 16 = 2

\* 10.0.0.0/8, 172.16.0.0/12, 192.168.0.0/16, 127.0.0.0/8, 100.64.0.0/10,
\* 169.254.0.0/16, 198.18.0.0/15, link-local multicast;
\* ::1, fc00::/7, fe80::/10, link-local multicast
PlanPrivate(ip) ==
    \/ PlanLoopback(ip)
    \/ PlanLinkLocalMulticast(ip)
    \/ IF V4Of(ip) # <<>>
       THEN LET h == Hi(V4Of(ip)) IN
            \/ h \in 2560..2815
            \/ h \in 44048..44063
            \/ h = 49320
            \/ h \in 25664..25727
            \/ h = 43518
            \/ h \in 50706..50707
       ELSE Hi(ip) \in 64512..65023 \/ Hi(ip) \in 65152..65215

\* the IP policy of the spec for one address under the effective options
PlanPolicyOK(ip, opts) ==
    /\ ~PlanAlwaysBlocked(ip)
    /\ (PlanLoopback(ip) => opts.AllowLocalhost)
    /\ (PlanPrivate(ip) /\ ~PlanLoopback(ip) => opts.AllowPrivateIP)

\* the call's URL is scheme://host/... with an IP literal as host
LiteralIPURL ==
    /\ urlArg.shape = "full"
    /\ urlArg.host.kind \in {"v4", "v6"}

\* the address the literal host denotes
LiteralAddr == urlArg.host.b

\* the call's URL is scheme://host/... with a symbolic name as host
NameURL ==
    /\ urlArg.shape = "full"
    /\ urlArg.host.kind = "name"

\* the call's URL passes the parse, user-info and scheme gates
PassesEarlyGates ==
    /\ urlArg.shape = "full"
    /\ ~urlArg.user
    /\ \/ Len(nopts.AllowedSchemes.elems) = 0
       \/ \E i \in 1..Len(nopts.AllowedSchemes.elems) :
            EqualFold(urlArg.scheme, nopts.AllowedSchemes.elems[i])

(* ================================ claims =============================== *)

\* C1: a literal-IP host that is unspecified, multicast, in 0.0.0.0/8 or the
\* broadcast address is rejected, and so is a hostname one of whose resolved
\* addresses is such an address, whatever the options are.
C1_AlwaysBlockedRejected ==
    upc = "done" =>
        /\ (LiteralIPURL /\ PlanAlwaysBlocked(LiteralAddr) => uerr # NoErr)
        /\ (lookups > 0 /\ (\E i \in 1..Len(dns.addrs) : PlanAlwaysBlocked(dns.addrs[i]))
              => uerr # NoErr)

\* a multicast literal reached the IP policy with every option permissive
C1_Witness ==
    /\ upc = "done"
    /\ LiteralIPURL
    /\ IsMulticast(ParseIP(urlArg.host))
    /\ nopts.AllowLocalhost /\ nopts.AllowPrivateIP
    /\ Len(nopts.AllowedSchemes.elems) = 0
    /\ checked = 1
    /\ uerr = ErrNonRoutable

\* C2: with resolution enabled, a hostname URL is accepted only if every
\* resolved address passes the IP policy; one disallowed address anywhere in
\* the answer rejects the URL.
C2_EveryResolvedAddressChecked ==
    upc = "done" /\ lookups > 0 =>
        /\ (uerr = NoErr => \A i \in 1..Len(dns.addrs) : PlanPolicyOK(dns.addrs[i], nopts))
        /\ ((\E i \in 1..Len(dns.addrs) : ~PlanPolicyOK(dns.addrs[i], nopts)) => uerr # NoErr)

\* the answer's first address is allowed, a later one is not, and the URL is rejected
C2_Witness ==
    /\ upc = "done"
    /\ lookups = 1
    /\ Len(dns.addrs) >= 2
    /\ PlanPolicyOK(dns.addrs[1], nopts)
    /\ ~PlanPolicyOK(dns.addrs[Len(dns.addrs)], nopts)
    /\ checked = Len(dns.addrs)
    /\ uerr # NoErr

(* --------------------------- path containment -------------------------- *)

\* the non-empty elements of a path
Segs(p) == SelectSeq(Split(p, Sep), LAMBDA e : e # <<>>)

\* p is d or lies beneath d, element by element
SegWithin(p, d) ==
    LET sp == Segs(p)
        sd == Segs(d)
    IN /\ Len(sd) <= Len(sp)
       /\ SubSeq(sp, 1, Len(sd)) = sd

\* the call restricts paths to a non-empty list of directories
HasAllowlist == ~popts.isNil /\ Len(popts.AllowedDirs) > 0

\* the i-th allowed directory resolves to an absolute path
AllowedOK(i) == Abs(popts.AllowedDirs[i], cwd).ok

\* the i-th allowed directory, absolute and cleaned
AllowedAbs(i) == Clean(Abs(popts.AllowedDirs[i], cwd).path)

\* CheckTraversal as the call sees it (nil options turn it on)
EffCheckTraversal == popts.isNil \/ popts.CheckTraversal

\* C3: with a non-empty AllowedDirs a returned path equals a cleaned absolute
\* allowed directory or has it followed by a separator as prefix, so it lies
\* beneath that directory element by element; an input whose cleaned absolute
\* form lies beneath no allowed directory is rejected, with CheckTraversal on or off.
C3_NoPrefixBypass ==
    ppc = "done" /\ HasAllowlist =>
        /\ pres.err = NoErr =>
             \E i \in 1..Len(popts.AllowedDirs) :
                /\ AllowedOK(i)
                /\ LET d == AllowedAbs(i) IN
                   /\ \/ pres.path = d
                      \/ HasPrefix(pres.path, d \o <<Sep>>)
                   /\ SegWithin(pres.path, d)
        /\ Abs(pathArg, cwd).ok =>
             LET p == Clean(Abs(pathArg, cwd).path) IN
             (\A i \in 1..Len(popts.AllowedDirs) : ~(AllowedOK(i) /\ SegWithin(p, AllowedAbs(i))))
                => pres.err # NoErr

\* /aa/a against the allowed directory /a, CheckTraversal off: rejected
C3_Witness ==
    /\ ppc = "done"
    /\ HasAllowlist
    /\ ~popts.CheckTraversal
    /\ popts.AllowedDirs = <<(<<"/", "a">>)>>
    /\ pathArg = <<"/", "a", "a", "/", "a">>
    /\ pres.err = ErrNotAllowed

\* the path is the link l or goes through it
ThroughLink(p, l) == p = l.link \/ HasPrefix(p, l.link \o <<Sep>>)

\* where a path through the link l really points
RealPath(p, l) == l.target \o SubSeq(p, Len(l.link) + 1, Len(p))

\* the directory /aa outside /a exists and holds the file /aa/a
ExistingReal == {<<"/", "a", "a">>, <<"/", "a", "a", "/", "a">>}

\* C4: an existing path that goes through a symlink whose target lies outside
\* every allowed directory is rejected.
C4_SymlinkEscapeBlocked ==
    ppc = "done" /\ HasAllowlist /\ Abs(pathArg, cwd).ok =>
        \A l \in fs :
            LET p == Clean(Abs(pathArg, cwd).path) IN
            (/\ ThroughLink(p, l)
             /\ RealPath(p, l) \in ExistingReal
             /\ \A i \in 1..Len(popts.AllowedDirs) :
                   ~(AllowedOK(i) /\ SegWithin(RealPath(p, l), AllowedAbs(i))))
            => pres.err # NoErr

\* C5: an input with a ".." segment, raw or after normalisation, gets the
\* traversal error when CheckTraversal is on, and no input gets the traversal
\* error when CheckTraversal is off.
C5_TraversalGate ==
    ppc = "done" =>
        /\ (/\ EffCheckTraversal
            /\ \/ containsTraversalSegment(pathArg)
               \/ (pathArg # <<>> /\ Abs(pathArg, cwd).ok
                   /\ containsTraversalSegment(Clean(Abs(pathArg, cwd).path))))
           => pres.err = ErrTraversal
        /\ (~EffCheckTraversal => pres.err # ErrTraversal)

\* /a/.. with CheckTraversal on: the traversal error
C5_Witness ==
    /\ ppc = "done"
    /\ ~popts.isNil
    /\ popts.CheckTraversal
    /\ pathArg = <<"/", "a", "/", ".", ".">>
    /\ pres.err = ErrTraversal

(* ------------------------------ IP policy ------------------------------ *)

\* C6: a literal-IP host outside the always-blocked ranges, in a URL that
\* passes the earlier gates, is accepted exactly when loopback implies
\* AllowLocalhost and private-but-not-loopback implies AllowPrivateIP.
C6_LiteralIPPolicy ==
    upc = "done" /\ LiteralIPURL /\ PassesEarlyGates /\ ~PlanAlwaysBlocked(LiteralAddr) =>
        (uerr = NoErr <=>
            /\ (PlanLoopback(LiteralAddr) => nopts.AllowLocalhost)
            /\ (PlanPrivate(LiteralAddr) /\ ~PlanLoopback(LiteralAddr) => nopts.AllowPrivateIP))

\* AllowPrivateIP without AllowLocalhost: a 127.0.0.0/8 address other than
\* 127.0.0.1 is still rejected, by the IP policy
C6_Witness ==
    /\ upc = "done"
    /\ LiteralIPURL
    /\ PassesEarlyGates
    /\ nopts.AllowPrivateIP /\ ~nopts.AllowLocalhost
    /\ PlanLoopback(LiteralAddr)
    /\ checked = 1
    /\ uerr = ErrLoopback

\* ValidateURL(url, nil) returned, url being http(s)://<IP literal>/ without user-info
DefaultCallOnLiteral ==
    /\ upc = "done"
    /\ uopts.isNil
    /\ LiteralIPURL
    /\ ~urlArg.user
    /\ ToLower(urlArg.scheme) \in {"http", "https"}

\* the host is written 127.0.0.1 or ::1
WrittenAsLocalhost ==
    \/ (urlArg.host.kind = "v4" /\ urlArg.host.b = <<127, 0, 0, 1>>)
    \/ (urlArg.host.kind = "v6" /\ urlArg.host.form = "short" /\ urlArg.host.b = Zeros(15) \o <<1>>)

\* C7 as stated: with default options every Private address as host fails
\* with an error naming "private" or "loopback".
C7_PrivateNamedPrivateOrLoopback ==
    DefaultCallOnLiteral /\ PlanPrivate(LiteralAddr) =>
        /\ uerr # NoErr
        /\ (Names(uerr, "private") \/ Names(uerr, "loopback"))

\* C7 (amended): with default options every Private address as host fails;
\* the error names "localhost" for the hosts written 127.0.0.1 and ::1,
\* "non-routable" for link-local multicast, and "private" or "loopback" otherwise.
C7_PrivateRejectedDefault ==
    DefaultCallOnLiteral /\ PlanPrivate(LiteralAddr) =>
        /\ uerr # NoErr
        /\ IF WrittenAsLocalhost THEN Names(uerr, "localhost")
           ELSE IF PlanLinkLocalMulticast(LiteralAddr) THEN Names(uerr, "non-routable")
           ELSE Names(uerr, "private") \/ Names(uerr, "loopback")

\* a carrier-NAT address under default options: the private-IP error
C7_Witness ==
    /\ DefaultCallOnLiteral
    /\ urlArg.host = V4Host(<<100, 64, 0, 1>>)
    /\ uerr = ErrPrivate

\* C8: with default options a well-formed http(s) URL whose host is a public
\* IP literal is accepted.
C8_PublicAcceptedDefault ==
    DefaultCallOnLiteral /\ ~PlanPrivate(LiteralAddr) /\ ~PlanAlwaysBlocked(LiteralAddr) =>
        uerr = NoErr

\* a public IPv6 literal accepted under default options, without any lookup
C8_Witness ==
    /\ DefaultCallOnLiteral
    /\ urlArg.host.kind = "v6"
    /\ V4Of(LiteralAddr) = <<>>
    /\ ~PlanPrivate(LiteralAddr) /\ ~PlanAlwaysBlocked(LiteralAddr)
    /\ checked = 1 /\ lookups = 0
    /\ uerr = NoErr

\* C9: a URL with user-info is rejected under every option combination.
C9_UserInfoRejected ==
    upc = "done" /\ urlArg.shape = "full" /\ urlArg.user => uerr # NoErr

\* user-info with localhost and private IPs allowed, no scheme list, no resolution
C9_Witness ==
    /\ upc = "done"
    /\ urlArg.shape = "full" /\ urlArg.user
    /\ nopts.AllowLocalhost /\ nopts.AllowPrivateIP
    /\ Len(nopts.AllowedSchemes.elems) = 0
    /\ nopts.ResolveHostTimeout = 0
    /\ uerr = ErrUserInfo

\* the call's URL has a symbolic host that gets past the localhost name check
ReachesResolution ==
    /\ NameURL
    /\ PassesEarlyGates
    /\ (nopts.AllowLocalhost \/ ToLower(urlArg.host.s) # "localhost")

\* C10: with resolution enabled a hostname URL that passed the earlier gates
\* is rejected when the lookup fails or answers no address; it is accepted
\* only after one lookup whose every address, at least one, was checked.
C10_ResolutionRequired ==
    upc = "done" /\ ReachesResolution /\ nopts.ResolveHostTimeout > 0 =>
        /\ lookups = 1
        /\ (~dns.ok \/ Len(dns.addrs) = 0 => uerr # NoErr)
        /\ (uerr = NoErr => dns.ok /\ Len(dns.addrs) >= 1 /\ checked = Len(dns.addrs))

\* the lookup succeeded with no address and the URL was rejected for it
C10_Witness ==
    /\ upc = "done"
    /\ ReachesResolution
    /\ lookups = 1
    /\ dns.ok /\ Len(dns.addrs) = 0
    /\ checked = 0
    /\ uerr = ErrNoAddrs

(* ------------------------------ C11 ------------------------------------ *)

\* the scheme as the caller wrote it; a URL without "scheme://" has none
WrittenScheme == IF urlArg.shape = "full" THEN urlArg.scheme ELSE ""

\* the list the gate works with, read off the caller's options
EffectiveSchemes ==
    IF uopts.isNil \/ uopts.AllowedSchemes.isNil THEN <<"http", "https">>
    ELSE uopts.AllowedSchemes.elems

\* two scheme texts that differ at most in letter case
SameIgnoringCase(a, b) ==
    \/ a = b
    \/ {a, b} \in {{"http", "HTTP"}, {"https", "HTTPS"}, {"ftp", "FTP"}}

\* the call parsed its URL and found no user info: it came to the scheme gate
CameToSchemeGate ==
    /\ upc = "done"
    /\ urlArg.shape \in {"path", "full"}
    /\ (urlArg.shape = "full" => ~urlArg.user)

RejectedForScheme == uerr # NoErr /\ Names(uerr, "scheme")

\* C11: with a non-empty effective scheme list a URL passes the scheme gate
\* iff its scheme equals an entry ignoring case; with nil options the list is
\* {http, https}, so ftp:// and file:// are rejected with an error that names
\* the scheme.
C11_SchemeGate ==
    CameToSchemeGate =>
        /\ (Len(EffectiveSchemes) > 0 =>
               (~RejectedForScheme <=>
                  \E i \in 1..Len(EffectiveSchemes) :
                      SameIgnoringCase(WrittenScheme, EffectiveSchemes[i])))
        /\ (uopts.isNil /\ WrittenScheme \in {"ftp", "file"} =>
               /\ RejectedForScheme
               /\ uerr.with[1] = WrittenScheme)

\* a default call on an ftp:// URL was rejected by the scheme gate
C11_Witness ==
    /\ upc = "done"
    /\ uopts.isNil
    /\ urlArg.shape = "full" /\ urlArg.scheme = "ftp" /\ ~urlArg.user
    /\ uerr = ErrScheme("ftp", <<"http", "https">>)

(* ------------------------------ C12 ------------------------------------ *)

\* C12: with ResolveHostTimeout 0 in the caller's options a URL with a
\* symbolic host that passed the parse, user-info, scheme, host and localhost
\* gates is accepted, and no lookup and no address check is made for it.
C12_NoResolutionAccepts ==
    upc = "done" /\ ReachesResolution /\ ~uopts.isNil /\ uopts.ResolveHostTimeout = 0 =>
        /\ uerr = NoErr
        /\ lookups = 0
        /\ checked = 0

\* an internal name was accepted unresolved
C12_Witness ==
    /\ upc = "done"
    /\ ReachesResolution
    /\ urlArg.host.s = "intranet.test"
    /\ ~uopts.isNil /\ uopts.ResolveHostTimeout = 0
    /\ lookups = 0
    /\ uerr = NoErr

(* ------------------------- ValidatePath contract ----------------------- *)

\* the call's input is non-empty, resolves to an absolute path and is not
\* stopped by the traversal gate
PastTraversalGate ==
    /\ pathArg # <<>>
    /\ Abs(pathArg, cwd).ok
    /\ ~(EffCheckTraversal /\ Contains(pathArg, <<".", ".">>))

\* C13: with a non-empty AllowedDirs an input whose cleaned absolute form is
\* an allowed directory or lies beneath one (the root, an entry with a
\* trailing separator, a relative entry, at any position) is accepted and its
\* cleaned absolute form is returned.
C13_AllowedAccepted ==
    ppc = "done" /\ HasAllowlist /\ PastTraversalGate =>
        LET p == Clean(Abs(pathArg, cwd).path) IN
        (\E i \in 1..Len(popts.AllowedDirs) : AllowedOK(i) /\ SegWithin(p, AllowedAbs(i)))
            => pres = PathResult(p, NoErr)

\* an absolute path in cleaned form: a leading separator, then elements that
\* are neither empty nor "." nor ".."
IsCleanAbs(p) ==
    /\ IsAbs(p)
    /\ \/ p = <<Sep>>
       \/ LET parts == Tail(Split(p, Sep)) IN
          \A i \in 1..Len(parts) : parts[i] \notin {<<>>, <<".">>, <<".", ".">>}

\* C14: a path returned by a successful call is absolute, cleaned and has no
\* ".." segment, whatever the options, CheckTraversal off included.
C14_ReturnedPathClean ==
    ppc = "done" /\ pres.err = NoErr => IsCleanAbs(pres.path)

\* /a/.. with CheckTraversal off comes back as /
C14_Witness ==
    /\ ppc = "done"
    /\ ~popts.isNil /\ ~popts.CheckTraversal
    /\ pathArg = <<"/", "a", "/", ".", ".">>
    /\ pres = PathResult(<<"/">>, NoErr)

\* C15: the error of an allowlist rejection is one fixed text without
\* arguments, so it is the same for every AllowedDirs that rejects the path
\* and carries none of the allowed directories.
C15_RejectionHidesAllowlist ==
    ppc = "done" /\ HasAllowlist /\ PastTraversalGate /\ pres.err # NoErr =>
        /\ pres.err.msg = <<"path", "is", "not", "under", "allowed", "directories">>
        /\ pres.err.with = <<>>

\* /a is rejected under the list [/aa, a]
C15_Witness ==
    /\ ppc = "done"
    /\ HasAllowlist
    /\ popts.AllowedDirs = <<(<<"/", "a", "a">>), (<<"a">>)>>
    /\ pathArg = <<"/", "a">>
    /\ cwd.ok
    /\ pres.err = ErrNotAllowed

\* C16: AllowRelative decides about relative inputs: accepted and made
\* absolute when it is true, rejected when it is false.
C16_AllowRelativeControls ==
    ppc = "done" /\ ~popts.isNil /\ pathArg # <<>> /\ ~IsAbs(pathArg) =>
        /\ (popts.AllowRelative /\ PastTraversalGate /\ ~HasAllowlist =>
               pres.err = NoErr /\ IsAbs(pres.path))
        /\ (~popts.AllowRelative => pres.err # NoErr)

\* the options value of a literal that names only AllowedDirs: the other
\* fields hold their zero value
SetsOnlyAllowedDirs ==
    /\ ~popts.isNil
    /\ Len(popts.AllowedDirs) > 0
    /\ ~popts.AllowRelative
    /\ ~popts.CheckTraversal

\* C17: an input with a ".." segment is rejected when options is nil and
\* when the options value sets only AllowedDirs.
C17_TraversalOnByDefault ==
    ppc = "done" /\ containsTraversalSegment(pathArg)
                 /\ (popts.isNil \/ SetsOnlyAllowedDirs) =>
        pres.err # NoErr

(* ------------------------------ C18 ------------------------------------ *)

\* C18: no step of either validator dereferences a nil options value, a nil
\* parsed URL or an address outside the resolved list; ValidateURL ends with
\* nil or an error, ValidatePath with (non-empty absolute path, nil) or
\* ("", error), never with a path beside an error.
C18_ErrorsAreValues ==
    /\ (upc \in {"scheme", "host", "ip", "loop"} => ~nopts.isNil /\ u.ok)
    /\ (upc = "loop" => idx \in 1..Len(addrs))
    /\ (upc = "done" => uerr = NoErr \/ Len(uerr.msg) > 0)
    /\ (ppc = "done" =>
          \/ (pres.err = NoErr /\ pres.path # <<>> /\ IsAbs(pres.path))
          \/ (pres.err # NoErr /\ Len(pres.err.msg) > 0 /\ pres.path = <<>>))

\* an empty allowlist entry list and a failing working directory: ("", error)
C18_Witness ==
    /\ ppc = "done"
    /\ ~popts.isNil /\ popts.AllowedDirs = <<>>
    /\ ~cwd.ok
    /\ pathArg = <<"a">>
    /\ pres = PathResult(<<>>, ErrPathParse)

(* ------------------------------ C20 ------------------------------------ *)

\* a text read as the type the running resolver returns
AsResolved(t) ==
    CASE rcall.fn = "ResolveString" -> Parsed(StringValue(t))
      [] rcall.fn \in {"ResolveInt", "ResolveInt64"} ->
            [ok |-> Atoi(t).ok, v |-> IntValue(Atoi(t).v)]
      [] rcall.fn = "ResolveBool" ->
            [ok |-> ParseBool(t).ok, v |-> BoolValue(ParseBool(t).v)]
      [] rcall.fn = "ResolveDuration" ->
            [ok |-> ParseDuration(t).ok, v |-> IntValue(ParseDuration(t).v)]
      [] OTHER -> [ok |-> FALSE, v |-> IntValue(0)]

\* the flag was set and its text reads as the requested type
FlagSupplies == flags.set /\ AsResolved(flags.text).ok
FlagValue == AsResolved(flags.text).v

\* the environment text as the resolver takes it (trimmed on request)
EnvText ==
    IF rcall.fn = "ResolveString" /\ rcall.option THEN TrimSpace(environ.text)
    ELSE environ.text

\* the variable is set to a non-empty text that reads as the requested type
\* and is not a zero that allowZero=false turns down
EnvSupplies ==
    /\ environ.set
    /\ EnvText # ""
    /\ AsResolved(EnvText).ok
    /\ (rcall.fn \in {"ResolveInt", "ResolveInt64"} /\ ~rcall.option => AsResolved(EnvText).v.n # 0)
EnvValue == AsResolved(EnvText).v

\* C20 as stated: a set flag decides alone (a zero included), the environment
\* is read only when the flag was not set, and the default is returned only
\* when neither the flag nor the environment supplies a usable value.
C20_PriorityOrder ==
    rpc = "done" /\ rcall.validator = "none" =>
        /\ (flags.set => rres = IF FlagSupplies THEN FlagValue ELSE rcall.defaultValue)
        /\ (~flags.set => rres = IF EnvSupplies THEN EnvValue ELSE rcall.defaultValue)
        /\ (rres = rcall.defaultValue =>
              \/ (~FlagSupplies /\ ~EnvSupplies)
              \/ (FlagSupplies /\ FlagValue = rcall.defaultValue)
              \/ (EnvSupplies /\ EnvValue = rcall.defaultValue))

\* C20 amended: a set flag decides alone: its value when its text reads as the
\* requested type (a zero included), else the default, whatever the
\* environment holds; when the flag was not set the environment's usable
\* value is returned, else the default.
C20_FlagThenEnvThenDefault ==
    rpc = "done" /\ rcall.validator = "none" =>
        /\ (flags.set => rres = IF FlagSupplies THEN FlagValue ELSE rcall.defaultValue)
        /\ (~flags.set => rres = IF EnvSupplies THEN EnvValue ELSE rcall.defaultValue)

\* --flag 0 with the variable set to 42 and allowZero=false: the result is 0
C20_Witness ==
    /\ rpc = "done"
    /\ rcall = Call("ResolveInt", IntValue(100), FALSE)
    /\ flags = SetTo("0")
    /\ environ = SetTo("42")
    /\ rres = IntValue(0)

(* ------------------------------ C21 ------------------------------------ *)

\* the running call is one of the resolvers that return an error
ValidatingCall == rcall.fn \in {"ResolveStringWithValidation", "ResolveIntWithValidation", "ResolvePort"}
ValidatingInts == rcall.fn \in {"ResolveIntWithValidation", "ResolvePort"}

\* what the call's validator lets through
PlanAccepts(val) ==
    CASE rcall.validator = "tooShort" -> val.s \notin {"", "0", "42", "5s"}
      [] rcall.validator = "range1to100" -> val.n >= 1 /\ val.n <= 100
      [] rcall.validator = "ValidatePort" -> val.n >= 1 /\ val.n <= 65535
      [] OTHER -> TRUE

\* the flag's candidate: the flag's text, for the integer resolvers as
\* flagutil.GetInt reads it (the default stands in for a text that is no number)
PlanFlagCandidates ==
    IF ~flags.set THEN <<>>
    ELSE IF ~ValidatingInts THEN <<StringValue(flags.text)>>
    ELSE IF flags.text \in {"0", "42", "65535", "65536"}
         THEN <<IntValue(CASE flags.text = "0" -> 0 [] flags.text = "42" -> 42
                           [] flags.text = "65535" -> 65535 [] OTHER -> 65536)>>
         ELSE <<rcall.defaultValue>>

\* the environment's candidate: set and usable, that is non-empty (after
\* trimming on request), a number for the integer resolvers, and not a zero
\* that allowZero=false turns down
PlanEnvCandidates ==
    LET text == IF rcall.fn = "ResolveStringWithValidation" /\ rcall.option /\ environ.text = " 42 "
                THEN "42" ELSE environ.text
        zeroAllowed == rcall.fn = "ResolveIntWithValidation" /\ rcall.option IN
    IF ~environ.set \/ text = "" THEN <<>>
    ELSE IF ~ValidatingInts THEN <<StringValue(text)>>
    ELSE IF text = "0" THEN (IF zeroAllowed THEN <<IntValue(0)>> ELSE <<>>)
    ELSE IF text = "42" THEN <<IntValue(42)>>
    ELSE IF text = "65535" THEN <<IntValue(65535)>>
    ELSE IF text = "65536" THEN <<IntValue(65536)>>
    ELSE <<>>

PlanCandidates == PlanFlagCandidates \o PlanEnvCandidates \o <<rcall.defaultValue>>
PlanAccepted == SelectSeq(PlanCandidates, PlanAccepts)

\* the error is the validator's for the default value
PlanDefaultError ==
    CASE rcall.validator = "tooShort" -> Names(rerr, "short")
      [] rcall.validator = "range1to100" -> Names(rerr, "100")
      [] rcall.validator = "ValidatePort" ->
            /\ Names(rerr, "65535")
            /\ rerr.with = <<IF rcall.defaultValue.n = 0 THEN "0" ELSE "65536">>
      [] OTHER -> FALSE

PlanLong(t) == t \in {" 42 ", "true", "65535", "65536", "default"}

\* the environment text as ResolveStringWithValidator takes it
ValidatorEnvText ==
    IF rcall.option /\ environ.text = " 42 " THEN "42" ELSE environ.text

C22_RestoreReturnsOriginal ==
    mlast \in {"Restore", "Cleanup"} => \A k \in ValidKeys : menv[k] = msnap[k]

(* ------------------------------ C23 ------------------------------------ *)

\* errors.Is(err, ErrInvalidEnvKey)
IsErrInvalidEnvKey(err) == Names(err, "ErrInvalidEnvKey")

\* C23: Set, Unset and SetMultiple given an empty key or a key containing
\* NUL return an error that is or wraps ErrInvalidEnvKey.
C23_InvalidKeyRejected ==
    mlast \in {"Set", "Unset", "SetMultiple"} /\ margs \cap InvalidKeys # {} =>
        IsErrInvalidEnvKey(merr)

(* ------------------------------ C24 ------------------------------------ *)

\* the caller's AllowLocalhost and ResolveHostTimeout as the call takes them
EffectiveAllowLocalhost == IF uopts.isNil THEN FALSE ELSE uopts.AllowLocalhost
EffectiveTimeout == IF uopts.isNil THEN 5 ELSE uopts.ResolveHostTimeout

\* the gates the call's input violates, read off the URL as written
ViolatesScheme ==
    /\ Len(EffectiveSchemes) > 0
    /\ ~\E i \in 1..Len(EffectiveSchemes) : SameIgnoringCase(WrittenScheme, EffectiveSchemes[i])
ViolatesHost == urlArg.shape # "full" \/ urlArg.host.kind = "none"
ViolatesLocalhost ==
    /\ urlArg.shape = "full"
    /\ ~EffectiveAllowLocalhost
    /\ \/ (urlArg.host.kind = "name" /\ urlArg.host.s \in {"localhost", "LOCALHOST", "LocalHost"})
       \/ WrittenAsLocalhost

\* the earliest gate in the order empty, parse, user info, scheme, host,
\* localhost that the input violates; "policy" when it violates none of them
FirstGate ==
    CASE urlArg.shape = "empty" -> "empty"
      [] urlArg.shape = "garbage" -> "parse"
      [] urlArg.shape = "full" /\ urlArg.user -> "user"
      [] OTHER ->
           IF ViolatesScheme THEN "scheme"
           ELSE IF ViolatesHost THEN "host"
           ELSE IF ViolatesLocalhost THEN "localhost"
           ELSE "policy"

\* the gates whose reason text the error carries
ReasonsOf(err) ==
    {g \in {"empty", "parse", "user", "scheme", "host", "localhost", "policy"} :
        \/ (g = "empty" /\ Names(err, "empty"))
        \/ (g = "parse" /\ Names(err, "format:"))
        \/ (g = "user" /\ Names(err, "user"))
        \/ (g = "scheme" /\ Names(err, "scheme"))
        \/ (g = "host" /\ Names(err, "contain"))
        \/ (g = "localhost" /\ Names(err, "localhost"))
        \/ (g = "policy" /\ \E w \in {"non-routable", "loopback", "private", "resolve", "resolved"} :
                                Names(err, w))}

\* C24: the gates fail in the order empty URL, parse failure, user info,
\* scheme, missing host, localhost name, IP policy or resolution: a rejected
\* call carries the reason of the earliest gate its input violates and of no
\* other gate, and an input that violates one of the first six is rejected.
C24_EarliestGateReported ==
    upc = "done" =>
        /\ (uerr # NoErr => ReasonsOf(uerr) = {FirstGate})
        /\ (FirstGate # "policy" => uerr # NoErr)

\* user info and a scheme that is not allowed: the user info is reported
C24_Witness ==
    /\ upc = "done"
    /\ uopts.isNil
    /\ urlArg.shape = "full"
    /\ urlArg.user
    /\ urlArg.scheme = "ftp"
    /\ ReasonsOf(uerr) = {"user"}

\* a scheme that is not allowed and the host localhost: the scheme is reported
C24_WitnessScheme ==
    /\ upc = "done"
    /\ uopts.isNil
    /\ urlArg.shape = "full"
    /\ ~urlArg.user
    /\ urlArg.scheme = "ftp"
    /\ urlArg.host.kind = "name"
    /\ urlArg.host.s = "localhost"
    /\ ReasonsOf(uerr) = {"scheme"}

(* ------------------------------ C25 ------------------------------------ *)

\* C25: a call issues at most one lookup, and issues it exactly when its
\* input violates none of the earlier gates, the host is a name and the
\* timeout is positive; a failed lookup ends the call with the resolution
\* error, no address checked and no second lookup.
C25_AtMostOneLookup ==
    /\ lookups <= 1
    /\ (lookups = 1 => FirstGate = "policy" /\ NameURL /\ EffectiveTimeout > 0)
    /\ (upc = "done" /\ FirstGate = "policy" /\ NameURL /\ EffectiveTimeout > 0 => lookups = 1)
    /\ (upc = "done" /\ lookups = 1 /\ ~dns.ok => Names(uerr, "resolve") /\ checked = 0)

\* a name whose lookup failed: one lookup, the call is over
C25_Witness ==
    /\ upc = "done"
    /\ NameURL
    /\ lookups = 1
    /\ ~dns.ok
    /\ Names(uerr, "resolve")

\* a name with a zero timeout: accepted, no lookup
C25_WitnessNoLookup ==
    /\ upc = "done"
    /\ NameURL
    /\ FirstGate = "policy"
    /\ EffectiveTimeout = 0
    /\ lookups = 0
    /\ uerr = NoErr

(* ------------------------------ C26 ------------------------------------ *)

\* the argument is empty or has a ".." segment
PlanInvalidPath(q) == q = <<>> \/ q = <<"/", "a", "/", ".", ".">>

\* the path was a regular file when validated and is a link to a regular
\* file when the call is over
SwappedAfterValidation ==
    /\ seenNode.kind = "file"
    /\ disk[safePath].kind = "link"
    /\ disk[disk[safePath].to].kind = "file"

\* C26: ReadPasswordFromFile validates, then reads: when validation fails
\* no file is read, and when the path is replaced by a symbolic link after
\* validation succeeded and before the read, the call returns the content
\* of the link's target.
C26_ValidateThenRead ==
    /\ pwReads <= 1
    /\ (pwReads = 1 => ~PlanInvalidPath(pwArg))
    /\ (pwpc = "done" /\ PlanInvalidPath(pwArg) => pwReads = 0 /\ pwRes.err # NoErr)
    /\ (pwpc = "done" /\ ~PlanInvalidPath(pwArg) /\ SwappedAfterValidation =>
            /\ pwRes.err = NoErr
            /\ pwRes.password = (IF disk[disk[safePath].to].data = " 42 " THEN "42"
                                 ELSE disk[disk[safePath].to].data))

\* /a/a held " 42 " when validated, became a link to /aa, and the call returned abc
C26_Witness ==
    /\ pwpc = "done"
    /\ safePath = PasswordPath
    /\ seenNode = File(" 42 ")
    /\ disk[PasswordPath] = Link(OtherPath)
    /\ disk[OtherPath] = File("abc")
    /\ pwRes = PasswordResult("abc", NoErr)

(* ------------------------------ C27 ------------------------------------ *)

\* the address lies in o1.o2.0.0/len, for a prefix of at most 16 bits: its
\* upper half agrees with the base on the first len bits
InRange(b, o1, o2, len) ==
    Hi(b) \div (2 ^ (16 - len)) = (o1 * 256 + o2) \div (2 ^ (16 - len))

\* 10.0.0.0/8, 172.16.0.0/12, 192.168.0.0/16, 127.0.0.0/8, 100.64.0.0/10,
\* 169.254.0.0/16, 198.18.0.0/15
InSevenRanges(b) ==
    \/ InRange(b, 10, 0, 8)
    \/ InRange(b, 172, 16, 12)
    \/ InRange(b, 192, 168, 16)
    \/ InRange(b, 127, 0, 8)
    \/ InRange(b, 100, 64, 10)
    \/ InRange(b, 169, 254, 16)
    \/ InRange(b, 198, 18, 15)

\* C27 as stated: on IPv4 addresses isPrivateIP is true iff the address lies
\* in one of the seven ranges.
C27_SevenRangesOnly ==
    ipc = "done" /\ V4Of(ipArg) # <<>> => (ipGot <=> InSevenRanges(V4Of(ipArg)))

\* C27 amended: on IPv4 addresses isPrivateIP is true iff the address lies
\* in one of the seven ranges or in 224.0.0.0/24.
C27_SevenRangesAndLinkLocalMulticast ==
    ipc = "done" /\ V4Of(ipArg) # <<>> =>
        (ipGot <=> \/ InSevenRanges(V4Of(ipArg))
                   \/ (InRange(V4Of(ipArg), 224, 0, 16) /\ Lo(V4Of(ipArg)) \div 256 = 0))

\* 100.128.0.0, just above 100.64.0.0/10, is not private
C27_Witness ==
    /\ ipc = "done"
    /\ ipArg = <<100, 128, 0, 0>>
    /\ ~ipGot

(* ------------------------------ C29 ------------------------------------ *)

\* the call has merged its options
OptionsMerged ==
    \/ upc \in {"scheme", "host", "ip", "loop"}
    \/ (upc = "done" /\ urlArg.shape # "empty")

\* C29: for a non-nil options value only a nil AllowedSchemes is replaced
\* by {http, https}, and AllowLocalhost, AllowPrivateIP and
\* ResolveHostTimeout are the caller's; nil options give the defaults with
\* the 5-second timeout. So a non-nil options value with a zero timeout
\* never leads to a lookup, and one with an empty non-nil AllowedSchemes
\* never to a scheme rejection.
C29_OptionMerging ==
    /\ (OptionsMerged /\ uopts.isNil =>
            /\ nopts.AllowedSchemes.elems = <<"http", "https">>
            /\ ~nopts.AllowLocalhost
            /\ ~nopts.AllowPrivateIP
            /\ nopts.ResolveHostTimeout = 5)
    /\ (OptionsMerged /\ ~uopts.isNil =>
            /\ (uopts.AllowedSchemes.isNil => nopts.AllowedSchemes.elems = <<"http", "https">>)
            /\ (~uopts.AllowedSchemes.isNil => nopts.AllowedSchemes = uopts.AllowedSchemes)
            /\ nopts.AllowLocalhost = uopts.AllowLocalhost
            /\ nopts.AllowPrivateIP = uopts.AllowPrivateIP
            /\ nopts.ResolveHostTimeout = uopts.ResolveHostTimeout)
    /\ (~uopts.isNil /\ uopts.ResolveHostTimeout = 0 => lookups = 0)
    /\ (upc = "done" /\ ~uopts.isNil /\ uopts.AllowedSchemes = Slice(<<>>) => ~Names(uerr, "scheme"))

\* an empty, non-nil AllowedSchemes: ftp://example.com is accepted without a lookup
C29_Witness ==
    /\ upc = "done"
    /\ ~uopts.isNil
    /\ uopts.AllowedSchemes = Slice(<<>>)
    /\ uopts.ResolveHostTimeout = 0
    /\ urlArg.shape = "full"
    /\ urlArg.scheme = "ftp"
    /\ urlArg.host = NameHost("example.com")
    /\ uerr = NoErr
    /\ lookups = 0

(* ------------------------------ C30 ------------------------------------ *)

\* C30 as stated: when ValidatePath(p, opts) succeeded with q,
\* ValidatePath(q, opts) with the same options and working directory
\* succeeds and returns q.
C30_Fixpoint ==
    ppc = "again" => pres = PathResult(pathArg, NoErr)

\* two dots in a row somewhere in the text
HasTwoDots(q) == \E i \in 1..(Len(q) - 1) : q[i] = "." /\ q[i + 1] = "."

\* C30 amended: when ValidatePath(p, opts) succeeded with q, and the
\* traversal check is off or q has no two dots in a row (none came in from
\* the working directory's name), ValidatePath(q, opts) with the same
\* options and working directory succeeds and returns q.
C30_FixpointWithoutDots ==
    ppc = "again" /\ (EffCheckTraversal => ~HasTwoDots(pathArg)) =>
        pres = PathResult(pathArg, NoErr)

\* /a/a came back from a call with an allowlist and comes back again
C30_Witness ==
    /\ ppc = "again"
    /\ ~popts.isNil
    /\ popts.AllowedDirs # <<>>
    /\ pathArg = <<"/", "a", "/", "a">>
    /\ pres = PathResult(<<"/", "a", "/", "a">>, NoErr)

(* ------------------------------ C19 ------------------------------------ *)

\* what goroutine g's call returns when it runs alone on the options as the
\* caller built them
AloneResult(g) ==
    IF gcall[g].kind = "url"
    THEN PathResult(<<>>, ValidateURL(gcall[g].urlStr, allocOpts.url, gans[g]))
    ELSE ValidatePath(gcall[g].path, allocOpts.path, ConcWorkDir)

\* C19: in every interleaving of calls that share the caller's options values
\* the options stay as the caller built them and every finished call has the
\* result it has when run alone.
C19_ConcurrentCallsIndependent ==
    /\ heapOpts = allocOpts
    /\ \A g \in Goroutines : gpc[g] = "done" => gres[g] = AloneResult(g)

\* two goroutines passed the same non-nil URLOptions with a nil AllowedSchemes:
\* one had its ftp URL rejected by the default scheme list while the other
\* was still between normalization and the gates
C19_Witness ==
    /\ ~heapOpts.url.isNil /\ heapOpts.url.AllowedSchemes.isNil
    /\ gpc[1] = "done" /\ gcall[1].kind = "url" /\ gcall[1].urlStr.shape = "full"
    /\ gcall[1].urlStr.scheme = "ftp"
    /\ gres[1].err = ErrScheme("ftp", <<"http", "https">>)
    /\ gpc[2] = "gates" /\ gcall[2].kind = "url"

====
